---- MODULE Spec2Model ----
(***************************************************************************)
(* A model of src/bot.ts: the Telegram bot that turns a YouTube link into  *)
(* a menu of download options (URLMessageHandler), downloads and delivers  *)
(* the chosen option (CallbackQueryHandler) and formats a link on request  *)
(* (FormatCommandHandler).                                                 *)
(*                                                                         *)
(* Text is modelled as a sequence of pieces (strings) whose concatenation  *)
(* is the text. Where the code looks at single characters (the regular     *)
(* expression of extractYoutubeURL, the tag stripping of fullErrorMessage, *)
(* the '|' separator of the callback data) the pieces are the characters   *)
(* or the separators themselves.                                           *)
(*                                                                         *)
(* One JavaScript callback runs to completion before the next event is     *)
(* handled, so every action below is one callback: the settlement of one   *)
(* awaited promise together with all the synchronous code that follows it. *)
(* Requests that are issued and not awaited (the edits of inform, the      *)
(* replies of the constructors) settle in actions of their own.            *)
(***************************************************************************)
EXTENDS Integers, Sequences, FiniteSets, TLC

VARIABLES
    \* ---- CallbackQueryHandler: one download session ----
    pc,           \* position of the session's promise chain
    session,      \* the handler's fields, set by its constructor
    undeletable,  \* the files unlinkSync cannot remove although present
    sent,         \* the options of the media message send() asked for
    progress,     \* the progress events the extraction tool has emitted
    peer,         \* a second download session, for another video
    \* ---- URLMessageHandler and FormatCommandHandler: one update ----
    upc,          \* position of the handler of the update
    handler,      \* the handler's fields
    processed,    \* the metadata fetched and what processVideoInfo made of it
    \* ---- the world the handlers share ----
    fs,           \* the files present in the working directory
    fileText,     \* the text last written to each description file
    msgs,         \* the message ids present in the chat
    edits,        \* the requests issued and not awaited, each pending/ok/failed
    calls,        \* the calls the handlers issued, in order
    errorLog,     \* what the handlers passed to error(...)
    settled,      \* how the awaited calls settled, in order
    unhandled     \* an exception or rejection reached the bot's error handler

vars == <<pc, session, undeletable, sent, progress, peer, upc, handler, processed, fs, fileText, msgs,
          edits, calls, errorLog, settled, unhandled>>

\* what a download session leaves alone
urlOnly == <<upc, handler, processed, fileText>>
\* what the handler of a message or of a command leaves alone
dlOnly == <<pc, session, undeletable, sent, progress, peer>>

-----------------------------------------------------------------------------
(* Bounds of the model *)

\* the longest error text a failing call carries
MaxErrLen == 3
\* the longest list of formats the extraction tool reports
MaxFormats == 3
\* the most progress events of one download
MaxProgress == 2
\* the largest height of a format
MaxHeight == 4400

\* the characters of an error text: the two tag delimiters and a letter
ErrChars == {"<", ">", "e"}
Errors == UNION {[1..n -> ErrChars] : n \in 0..MaxErrLen}

\* the message ids of a chat
MsgIds == 0..9

VideoIds == {"dQw4w9WgXcQ"}
\* the video of a second session
PeerVideoIds == {"9bZkp7q19f0"}

Range(q) == {q[i] : i \in 1..Len(q)}

\* the pieces of a text joined into one string
RECURSIVE Join(_)
Join(t) == IF t = << >> THEN "" ELSE Head(t) \o Join(Tail(t))

-----------------------------------------------------------------------------
(* Logging utils *)

Letters ==
    {"a", "b", "c", "d", "e", "f", "g", "h", "i", "j", "k", "l", "m",
     "n", "o", "p", "q", "r", "s", "t", "u", "v", "w", "x", "y", "z",
     "A", "B", "C", "D", "E", "F", "G", "H", "I", "J", "K", "L", "M",
     "N", "O", "P", "Q", "R", "S", "T", "U", "V", "W", "X", "Y", "Z"}
Digits == {"0", "1", "2", "3", "4", "5", "6", "7", "8", "9"}
\* the class \w of a regular expression
WordChars == Letters \cup Digits \cup {"_"}
\* the class \s, as far as the texts of the model use it
SpaceChars == {" ", "\n", "\t"}

\* the literal lit stands in t at position i
LitAt(t, i, lit) ==
    /\ i + Len(lit) - 1 <= Len(t)
    /\ \A k \in 1..Len(lit) : t[i + k - 1] = lit[k]

\* the end of the longest run of characters of t outside `stop` that starts
\* at i (the position after the run)
RECURSIVE RunEnd(_, _, _)
RunEnd(t, i, stop) ==
    IF i > Len(t) \/ t[i] \in stop THEN i ELSE RunEnd(t, i + 1, stop)

\* the parts of youtubeRegex, each tried at position p of t: the position
\* after the part, or 0 when the part does not stand there
\*   https?:\/\/
schemeEnd(t, p) ==
    LET http == <<"h", "t", "t", "p", ":", "/", "/">>
        https == <<"h", "t", "t", "p", "s", ":", "/", "/">>
    IN  IF LitAt(t, p, https) THEN p + Len(https)
        ELSE IF LitAt(t, p, http) THEN p + Len(http)
        ELSE 0

\*   (?:(?:www|music)\.)?
hostPrefixEnd(t, p) ==
    LET www == <<"w", "w", "w", ".">>
        music == <<"m", "u", "s", "i", "c", ".">>
    IN  IF LitAt(t, p, www) THEN p + Len(www)
        ELSE IF LitAt(t, p, music) THEN p + Len(music)
        ELSE p

\*   (?:youtube\.com\/(?:watch\?v=|shorts\/)|youtu\.be\/)
hostPathEnd(t, p) ==
    LET watch == <<"y", "o", "u", "t", "u", "b", "e", ".", "c", "o", "m", "/",
                   "w", "a", "t", "c", "h", "?", "v", "=">>
        shorts == <<"y", "o", "u", "t", "u", "b", "e", ".", "c", "o", "m", "/",
                    "s", "h", "o", "r", "t", "s", "/">>
        youtu_be == <<"y", "o", "u", "t", "u", ".", "b", "e", "/">>
    IN  IF LitAt(t, p, watch) THEN p + Len(watch)
        ELSE IF LitAt(t, p, shorts) THEN p + Len(shorts)
        ELSE IF LitAt(t, p, youtu_be) THEN p + Len(youtu_be)
        ELSE 0

\*   [\w-]{11}
videoIdEnd(t, p) ==
    IF /\ p + 10 <= Len(t)
       /\ \A k \in p..(p + 10) : t[k] \in WordChars \cup {"-"}
    THEN p + 11
    ELSE 0

\* youtubeRegex tried at position i of t: the position after the match, or
\* 0 when there is none. The alternatives of the expression exclude each
\* other, so there is at most one way through the parts, and [^\s]* takes
\* the longest run.
\*   https?:\/\/(?:(?:www|music)\.)?
\*   (?:youtube\.com\/(?:watch\?v=|shorts\/)|youtu\.be\/)[\w-]{11}[^\s]*
youtubeRegexAt(t, i) ==
    LET scheme == {schemeEnd(t, i)} \ {0}
        prefix == {hostPrefixEnd(t, p) : p \in scheme}
        path == {hostPathEnd(t, p) : p \in prefix} \ {0}
        id == {videoIdEnd(t, p) : p \in path} \ {0}
        ends == {RunEnd(t, p, SpaceChars) : p \in id}
    IN  IF ends = {} THEN 0 ELSE CHOOSE e \in ends : TRUE

\* the same for an expression that ends after the video id, without the
\* [^\s]* that takes the query string
extractYoutubeURLBare(text) ==
    LET idEnd(i) ==
            LET scheme == {schemeEnd(text, i)} \ {0}
                prefix == {hostPrefixEnd(text, p) : p \in scheme}
                path == {hostPathEnd(text, p) : p \in prefix} \ {0}
                id == {videoIdEnd(text, p) : p \in path} \ {0}
            IN  IF id = {} THEN 0 ELSE CHOOSE e \in id : TRUE
        found == {m \in {<<i, idEnd(i)>> : i \in 1..Len(text)} : m[2] # 0}
    IN  IF found = {} THEN << >>
        ELSE LET first == CHOOSE m \in found : \A n \in found : m[1] <= n[1]
             IN  SubSeq(text, first[1], first[2] - 1)

\* the same for an expression that takes any link: https?:\/\/[^\s]*
extractAnyURL(text) ==
    LET found == {m \in {<<i, schemeEnd(text, i)>> : i \in 1..Len(text)} :
                     m[2] # 0}
    IN  IF found = {} THEN << >>
        ELSE LET first == CHOOSE m \in found : \A n \in found : m[1] <= n[1]
             IN  SubSeq(text, first[1], RunEnd(text, first[2], SpaceChars) - 1)

\* text.match(youtubeRegex): the match at the first position that has one;
\* the empty text stands for undefined (a match is never empty)
extractYoutubeURL(text) ==
    LET found == {m \in {<<i, youtubeRegexAt(text, i)>> : i \in 1..Len(text)} :
                     m[2] # 0}
    IN  IF found = {} THEN << >>
        ELSE LET first == CHOOSE m \in found : \A n \in found : m[1] <= n[1]
             IN  SubSeq(text, first[1], first[2] - 1)

\* the messages of errorMessages, each named by its key
errorMessages ==
    [atGettingInfo |-> "Failed to obtain info from a YouTube video. ...",
     atDownload    |-> "Encountered an error when downloading the file, ...",
     badURL        |-> "The URL you inputted is invalid. ..."]

\* String(e).replace(/<[^>]*>/g, ""): from the left, a '<' that has a '>'
\* after it is removed together with everything up to the first such '>';
\* any other character is kept.
RECURSIVE StripFrom(_, _)
StripFrom(s, i) ==
    IF i > Len(s) THEN << >>
    ELSE IF s[i] = "<" /\ \E j \in (i + 1)..Len(s) : s[j] = ">"
         THEN LET close == CHOOSE j \in (i + 1)..Len(s) :
                               /\ s[j] = ">"
                               /\ \A k \in (i + 1)..(j - 1) : s[k] # ">"
              IN  StripFrom(s, close + 1)
         ELSE <<s[i]>> \o StripFrom(s, i + 1)

sanitizedError(e) == StripFrom(e, 1)

\* fullErrorMessage without the replace: the raw error text is appended
fullErrorMessageRaw(errorCategory, e) ==
    <<errorMessages[errorCategory], "\nError log: ">> \o e

fullErrorMessage(errorCategory, e) ==
    <<errorMessages[errorCategory], "\nError log: ">> \o sanitizedError(e)

\* the rejection handler of getInform's edit: the failure is logged and
\* swallowed, so the unhandled flag is left as it was
informRejectedUncaught(u) == TRUE

informRejected(u) == u

\* inform(msg, other): an editMessageText request for the message `target`
\* is issued and not awaited; its promise has the catch of getInform
inform(es, target, msg, other) ==
    Append(es, [op |-> "editMessageText", target |-> target, msg |-> msg,
                reply_markup |-> other, st |-> "pending", caught |-> TRUE])

\* ctx.reply(msg) not awaited and with no catch on its promise
replyUnawaited(es, msg) ==
    Append(es, [op |-> "reply", target |-> 0, msg |-> msg,
                reply_markup |-> << >>, st |-> "pending", caught |-> FALSE])

Call(op, arg) == [op |-> op, arg |-> arg]

\* the settlement of an awaited call
Settled(op, ok) == [op |-> op, ok |-> ok]

-----------------------------------------------------------------------------
(* Bot utils *)

\* getDurationString(totalSeconds), for a whole number of seconds
getDurationString(totalSeconds) ==
    LET seconds == totalSeconds % 60
        hours == totalSeconds \div 3600
        minutes == (totalSeconds % 3600) \div 60
    IN  IF hours > 0
        THEN ToString(hours) \o "h " \o ToString(minutes) \o "m "
                 \o ToString(seconds) \o "s"
        ELSE ToString(minutes) \o "m " \o ToString(seconds) \o "s"

\* `<b>[${getDurationString(info.duration)}]</b> ${info.title}\nBy <b>${info.uploader}</b>`
generateDescription(info) ==
    <<"<b>[", getDurationString(info.duration), "]</b>", " ", info.title, "\n",
      "By <b>", info.uploader, "</b>">>

-----------------------------------------------------------------------------
(* CallbackQueryHandler *)

\* data.split("|"): the pieces between the separators, each field the
\* concatenation of its pieces
RECURSIVE SplitFrom(_, _, _)
SplitFrom(data, i, cur) ==
    IF i > Len(data) THEN <<cur>>
    ELSE IF data[i] = "|" THEN <<cur>> \o SplitFrom(data, i + 1, "")
         ELSE SplitFrom(data, i + 1, cur \o data[i])

\* a split that leaves the empty fields out
splitSkipEmpty(data) == SelectSeq(SplitFrom(data, 1, ""), LAMBDA f : f # "")

split(data) == SplitFrom(data, 1, "")

\* a field of the destructured split; a missing one is undefined, which the
\* template strings below never meet for the payloads the bot builds
Field(fields, i) == IF i <= Len(fields) THEN fields[i] ELSE "undefined"

\* parseInt on the decimal strings of the message ids; -1 stands for NaN
parseInt(s) ==
    IF \E n \in MsgIds : ToString(n) = s
    THEN CHOOSE n \in MsgIds : ToString(n) = s
    ELSE -1

\* the constructor with file paths that do not hold the video id
CallbackQueryHandlerSharedPaths(data, inline_msg_id) ==
    LET fields == split(data)
        height == Field(fields, 4)
        width == Field(fields, 5)
        isAudio == (height = "") /\ (width = "")
        storedFileName == "download." \o (IF isAudio THEN "m4a" ELSE "mp4")
    IN  [inline_msg_id |-> inline_msg_id,
         video_id |-> Field(fields, 1),
         original_user_msg_id |-> parseInt(Field(fields, 6)),
         url |-> "https://youtube.com/watch?v=" \o Field(fields, 1),
         format |-> Field(fields, 2),
         duration |-> Field(fields, 3),
         height |-> height,
         width |-> width,
         isAudio |-> isAudio,
         storedFilePath |-> storedFileName,
         thumbFilePath |-> IF isAudio THEN storedFileName \o ".jpg"
                                      ELSE "download.jpg",
         descrFilePath |-> "download-descr.txt"]

\* the constructor: the fields decoded from ctx.callbackQuery.data and the
\* three file paths derived from them, each named from the working
\* directory (the process.cwd() the code joins them to)
CallbackQueryHandler(data, inline_msg_id) ==
    LET fields == split(data)
        video_id == Field(fields, 1)
        height == Field(fields, 4)
        width == Field(fields, 5)
        isAudio == (height = "") /\ (width = "")
        storedFileName == video_id \o "." \o (IF isAudio THEN "m4a" ELSE "mp4")
    IN  [inline_msg_id |-> inline_msg_id,
         video_id |-> video_id,
         original_user_msg_id |-> parseInt(Field(fields, 6)),
         url |-> "https://youtube.com/watch?v=" \o video_id,
         format |-> Field(fields, 2),
         duration |-> Field(fields, 3),
         height |-> height,
         width |-> width,
         isAudio |-> isAudio,
         storedFilePath |-> storedFileName,
         thumbFilePath |-> IF isAudio THEN storedFileName \o ".jpg"
                                      ELSE video_id \o ".jpg",
         descrFilePath |-> video_id \o "-descr.txt"]

NoSession == CallbackQueryHandler(<< >>, 0)

\* the media message before send() has asked for one
NoMedia == [kind |-> "none", title |-> "", performer |-> "", caption |-> << >>]

\* videoDescr.split("\n"): the lines of a text, each the pieces between
\* two line breaks; a text without a line break is one line
RECURSIVE SplitLines(_, _)
SplitLines(text, cur) ==
    IF text = << >> THEN <<cur>>
    ELSE IF Head(text) = "\n" THEN <<cur>> \o SplitLines(Tail(text), << >>)
         ELSE SplitLines(Tail(text), Append(cur, Head(text)))

\* the first place from `from` on where `piece` stands in the line, 0 when
\* there is none
firstAt(line, piece, from) ==
    LET at == {j \in from..Len(line) : line[j] = piece}
    IN  IF at = {} THEN 0 ELSE CHOOSE j \in at : \A k \in at : j <= k

\* the end of the run of white space that starts at i
RECURSIVE SpaceRunEnd(_, _)
SpaceRunEnd(line, i) ==
    IF i > Len(line) \/ line[i] \notin SpaceChars THEN i
    ELSE SpaceRunEnd(line, i + 1)

\* line.match(/^<b>\[.*?\]<\/b>\s*(.*)/): whether the line matches, and
\* the text of the group
titleMatch(line) ==
    LET close == IF Len(line) >= 1 /\ line[1] = "<b>[" THEN firstAt(line, "]</b>", 2)
                 ELSE 0
    IN  IF close = 0 THEN [matched |-> FALSE, group |-> ""]
        ELSE [matched |-> TRUE,
              group |-> Join(SubSeq(line, SpaceRunEnd(line, close + 1), Len(line)))]

\* text.replace(" - Topic", ""): the first occurrence is taken out
RECURSIVE replaceTopic(_)
replaceTopic(line) ==
    IF line = << >> THEN << >>
    ELSE IF Head(line) = " - Topic" THEN Tail(line)
         ELSE <<Head(line)>> \o replaceTopic(Tail(line))

\* line.match(/^By <b>(.*?)<\/b>/): whether the line matches, and the
\* pieces of the group
authorMatch(line) ==
    LET close == IF Len(line) >= 1 /\ line[1] = "By <b>" THEN firstAt(line, "</b>", 2)
                 ELSE 0
    IN  IF close = 0 THEN [matched |-> FALSE, group |-> << >>]
        ELSE [matched |-> TRUE, group |-> SubSeq(line, 2, close - 1)]

\* the title and the performer send() gives an audio message: both empty
\* without a description; with one, the groups of the first two lines, the
\* video id and "Unknown Artist" standing in for a group that is missing or
\* empty. A description of one line has no descrLines[1], and the match
\* called on it throws.
audioTags(s, hasDescription, videoDescr) ==
    IF ~hasDescription THEN [threw |-> FALSE, title |-> "", performer |-> ""]
    ELSE LET descrLines == SplitLines(videoDescr, << >>)
             title == titleMatch(descrLines[1])
         IN  IF Len(descrLines) < 2
             THEN [threw |-> TRUE, title |-> "", performer |-> ""]
             ELSE LET author == authorMatch(descrLines[2])
                      name == Join(replaceTopic(author.group))
                  IN  [threw |-> FALSE,
                       title |-> IF title.matched /\ title.group # ""
                                 THEN title.group ELSE s.video_id,
                       performer |-> IF author.matched /\ name # ""
                                     THEN name ELSE "Unknown Artist"]

\* the options of the message send() asks for: a video with the description
\* as its caption, or an audio with the title and the performer
mediaOptions(s, hasDescription, videoDescr) ==
    IF s.isAudio
    THEN LET tags == audioTags(s, hasDescription, videoDescr)
         IN  [kind |-> "audio", title |-> tags.title, performer |-> tags.performer,
              caption |-> << >>]
    ELSE [kind |-> "video", title |-> "", performer |-> "", caption |-> videoDescr]

\* unlinkSync(p) succeeds when the file is there and can be removed
unlinkOk(f, p) == p \in f /\ p \notin undeletable

\* the try block of cleanUpFiles: the unlinkSync calls in order, the first
\* one that throws ends the block
RECURSIVE unlinkInOrder(_, _)
unlinkInOrder(f, paths) ==
    IF paths = << >> THEN [fs |-> f, attempted |-> << >>, threw |-> FALSE]
    ELSE IF ~unlinkOk(f, Head(paths))
         THEN [fs |-> f, attempted |-> <<Head(paths)>>, threw |-> TRUE]
         ELSE LET rest == unlinkInOrder(f \ {Head(paths)}, Tail(paths))
              IN  [fs |-> rest.fs,
                   attempted |-> <<Head(paths)>> \o rest.attempted,
                   threw |-> rest.threw]

\* cleanUpFiles without its try/catch: a failing unlinkSync is raised
cleanUpFilesUncaught(s, f) ==
    LET r == unlinkInOrder(f, <<s.storedFilePath, s.thumbFilePath, s.descrFilePath>>)
    IN  [fs |-> r.fs, attempted |-> r.attempted, raised |-> r.threw]

\* cleanUpFiles: the three unlinkSync calls in one try block whose catch
\* logs and swallows
cleanUpFiles(s, f) ==
    LET r == unlinkInOrder(f, <<s.storedFilePath, s.thumbFilePath, s.descrFilePath>>)
    IN  [fs |-> r.fs, attempted |-> r.attempted, raised |-> FALSE]

\* the calls cleanUpFiles makes
RECURSIVE unlinkCalls(_)
unlinkCalls(paths) ==
    IF paths = << >> THEN << >>
    ELSE <<Call("unlinkSync", Head(paths))>> \o unlinkCalls(Tail(paths))

cleanUpCalls(s, f) ==
    <<Call("cleanUpFiles", s.video_id)>> \o unlinkCalls(cleanUpFiles(s, f).attempted)

-----------------------------------------------------------------------------
(* Message handler: quality tiers, format selection and the menu *)

allowedFormats == <<"144p", "240p", "360p", "480p", "720p", "1080p", "1440p", "4K">>

QUALITY_LEVELS ==
    <<[threshold |-> 360,  label |-> "240p"],
      [threshold |-> 480,  label |-> "360p"],
      [threshold |-> 720,  label |-> "480p"],
      [threshold |-> 1080, label |-> "720p"],
      [threshold |-> 1440, label |-> "1080p"],
      [threshold |-> 2160, label |-> "1440p"],
      [threshold |-> 4320, label |-> "4K"]>>

\* the same with a height that reaches a threshold kept under its level
getQualityIDInclusive(height) ==
    LET below == {i \in 1..Len(QUALITY_LEVELS) : height <= QUALITY_LEVELS[i].threshold}
    IN  IF below = {} THEN "4K"
        ELSE QUALITY_LEVELS[CHOOSE i \in below : \A j \in below : i <= j].label

\* the label of the first level whose threshold is above the height, "4K"
\* when there is none
getQualityID(height) ==
    LET below == {i \in 1..Len(QUALITY_LEVELS) : height < QUALITY_LEVELS[i].threshold}
    IN  IF below = {} THEN "4K"
        ELSE QUALITY_LEVELS[CHOOSE i \in below : \A j \in below : i <= j].label

\* a.indexOf(x), from 0, -1 when x is not in a
indexOf(a, x) ==
    IF \E i \in 1..Len(a) : a[i] = x
    THEN (CHOOSE i \in 1..Len(a) : a[i] = x /\ \A j \in 1..(i - 1) : a[j] # x) - 1
    ELSE -1

\* array.sort((x, y) => key(x) - key(y)): ascending by the number the
\* comparator takes of each element, given as the list `key` of those
\* numbers; elements that compare equal keep their order (the sort of the
\* language is stable)
sort(a, key) ==
    LET rank(i) == Cardinality({j \in 1..Len(a) : key[j] < key[i]})
                   + Cardinality({j \in 1..i : key[j] = key[i]})
    IN  [k \in 1..Len(a) |-> a[CHOOSE i \in 1..Len(a) : rank(i) = k]]

\* obj[key] = value on an object kept as the list of its entries: a known
\* key keeps its place, a new one goes last
RECURSIVE assign(_, _, _)
assign(obj, key, value) ==
    IF obj = << >> THEN <<[res |-> key, fmt |-> value]>>
    ELSE IF Head(obj).res = key THEN <<[res |-> key, fmt |-> value]>> \o Tail(obj)
    ELSE <<Head(obj)>> \o assign(Tail(obj), key, value)

\* a format the tier ladder can use: a video codec, a known filesize and a
\* known height (0 stands for a missing number)
isVideoFormat(f) == f.vcodec # "none" /\ f.filesize # 0 /\ f.height # 0

\* a format the audio track can come from
isAudioFormat(f) == f.acodec # "none" /\ f.filesize # 0

\* (a, b) => a.filesize - b.filesize
filesizeAscending(formats) == [i \in 1..Len(formats) |-> formats[i].filesize]

\* (a, b) => b.filesize - a.filesize
filesizeDescending(formats) == [i \in 1..Len(formats) |-> 0 - formats[i].filesize]

\* videoformats.forEach(format => existingFormats[getQualityID(h)] = [...])
RECURSIVE forEachFormat(_, _)
forEachFormat(videoformats, existingFormats) ==
    IF videoformats = << >> THEN existingFormats
    ELSE LET format == Head(videoformats)
         IN  forEachFormat(Tail(videoformats),
                 assign(existingFormats, getQualityID(format.height),
                        [id |-> format.format_id, size |-> format.filesize,
                         h |-> format.height, w |-> format.width]))

\* what processVideoInfo returns: the video formats ascending by filesize,
\* each written to the slot of its tier; the first of the audio formats
\* descending by filesize, a list of none when there is no such format
\* (undefined). The description file it writes is in the action that calls it.
processVideoInfo(info) ==
    LET video == SelectSeq(info.formats, isVideoFormat)
        audio == SelectSeq(info.formats, isAudioFormat)
        videoformats == sort(video, filesizeAscending(video))
        audioformats == sort(audio, filesizeDescending(audio))
    IN  [video_id |-> info.id,
         existingFormats |-> forEachFormat(videoformats, << >>),
         largest_audio |-> IF audioformats = << >> THEN << >>
                           ELSE <<audioformats[1]>>]

\* the description processVideoInfo writes to `${video_id}-descr.txt`
videoDescr(info, url) == generateDescription(info) \o <<"\n", url>>

\* a power of 1024
RECURSIVE pow1024(_)
pow1024(i) == IF i <= 0 THEN 1 ELSE 1024 * pow1024(i - 1)

\* bytes / unit rounded to one decimal as toFixed(1) rounds it (the quotient
\* by a power of two is exact, a tie goes up), in tenths; computed on the
\* quotient and the remainder so that no product leaves 32 bits
tenthsOf(bytes, unit) ==
    LET q == bytes \div unit
        r == bytes % unit
        chunk == IF unit > 1024 * 1024 THEN 1024 ELSE 1
        hi == r \div chunk
        lo == r % chunk
        u == unit \div chunk
    IN  q * 10 + ((hi * 10 + (u \div 2) + ((lo * 10) \div chunk)) \div u)

\* `${parseFloat(x.toFixed(1))}`: the decimal is dropped when it is 0
numberText(tenths) ==
    IF tenths % 10 = 0 THEN ToString(tenths \div 10)
    ELSE ToString(tenths \div 10) \o "." \o ToString(tenths % 10)

\* formatSize(bytes): i = floor(log_1024(bytes / 1024)) picks the unit;
\* sizes[i] is undefined below 1 KB and from 1 TB on, and 0 bytes give NaN
formatSize(bytes) ==
    LET sizes == <<"KB", "MB", "GB">>
    IN  IF bytes = 0 THEN "NaN" \o "undefined"
        ELSE IF bytes < 1024 THEN ToString(bytes) \o "undefined"
        ELSE LET i == IF bytes < pow1024(2) THEN 0
                      ELSE IF bytes < pow1024(3) THEN 1
                      ELSE 2
             IN  numberText(tenthsOf(bytes, pow1024(i + 1))) \o sizes[i + 1]

\* `${info.id}|ba|${info.duration}|||${this.user_msg_id}`
audioActionData(id, duration, user_msg_id) ==
    <<id, "|", "ba", "|", ToString(duration), "|", "|", "|", ToString(user_msg_id)>>

\* `${video_id}|${id}+ba|${info.duration}|${h}|${w}|${this.user_msg_id}`;
\* a missing width prints as undefined
videoActionData(video_id, id, duration, h, w, user_msg_id) ==
    <<video_id, "|", id, "+ba", "|", ToString(duration), "|", ToString(h), "|",
      IF w = 0 THEN "undefined" ELSE ToString(w), "|", ToString(user_msg_id)>>

\* a comparator that tells no two entries apart: the entries stay in the
\* order of their arrival
byArrival(entries) == [i \in 1..Len(entries) |-> 0]

\* ([res1], [res2]) => allowedFormats.indexOf(res1) - allowedFormats.indexOf(res2)
byAllowedFormats(entries) ==
    [i \in 1..Len(entries) |-> indexOf(allowedFormats, entries[i].res)]

\* the buttons of the tiers, in the order of the sorted entries (in the
\* labels <= and ~ stand for the signs "at most" and "about" of the source)
RECURSIVE tierButtons(_, _, _, _)
tierButtons(entries, info, largest_audio, user_msg_id) ==
    IF entries = << >> THEN << >>
    ELSE LET e == Head(entries)
         IN  <<[text |-> e.res \o " (<="
                           \o formatSize(e.fmt.size + largest_audio.filesize) \o ")",
                data |-> videoActionData(info.id, e.fmt.id, info.duration,
                                         e.fmt.h, e.fmt.w, user_msg_id)]>>
             \o tierButtons(Tail(entries), info, largest_audio, user_msg_id)

\* buildInlineKeyboard: the audio button, then one button per tier in the
\* order of allowedFormats; reading the filesize of an undefined
\* largest_audio throws
buildInlineKeyboard(info, processingResult, user_msg_id) ==
    IF processingResult.largest_audio = << >>
    THEN [threw |-> TRUE, keyboard |-> << >>]
    ELSE LET largest_audio == processingResult.largest_audio[1]
         IN  [threw |-> FALSE,
              keyboard |->
                  <<[text |-> "Music (~" \o formatSize(largest_audio.filesize) \o ")",
                     data |-> audioActionData(info.id, info.duration, user_msg_id)]>>
                  \o tierButtons(sort(processingResult.existingFormats,
                                      byAllowedFormats(processingResult.existingFormats)),
                                 info, largest_audio, user_msg_id)]

\* what a TypeError of the runtime prints as
TypeErrorText == <<"TypeError: Cannot read properties of undefined">>

-----------------------------------------------------------------------------
(* CallbackQueryHandler.handle and the callbacks of its promise chain *)

\* the chat of a session: the user's message and, right after it, the
\* bot's status message that carries the menu
UserMsg == CHOOSE m \in msgs : \A n \in msgs : m <= n

\* the catch callback with the cleanup before the report
CatchCleanupFirst(e, f, cs, es) ==
    LET c == cleanUpFiles(session, f)
        m == fullErrorMessage("atDownload", e)
    IN  /\ errorLog' = Append(errorLog, e)
        /\ edits' = inform(es, session.inline_msg_id, m, << >>)
        /\ calls' = cs \o cleanUpCalls(session, f)
                       \o <<Call("editMessageText", m[1])>>
        /\ fs' = c.fs
        /\ unhandled' = (unhandled \/ c.raised)
        /\ pc' = "done"

\* the catch callback without the cleanup
CatchNoCleanup(e, f, cs, es) ==
    LET m == fullErrorMessage("atDownload", e)
    IN  /\ errorLog' = Append(errorLog, e)
        /\ edits' = inform(es, session.inline_msg_id, m, << >>)
        /\ calls' = cs \o <<Call("editMessageText", m[1])>>
        /\ fs' = f
        /\ unhandled' = unhandled
        /\ pc' = "done"

\* .catch((e) => { error(e); inform(fullErrorMessage("atDownload", e));
\*                 this.cleanUpFiles() })
\* f, cs and es are the files, the calls and the requests as the rejected
\* step left them; an exception raised inside this callback has no handler
\* after it
Catch(e, f, cs, es) ==
    LET c == cleanUpFiles(session, f)
        m == fullErrorMessage("atDownload", e)
    IN  /\ errorLog' = Append(errorLog, e)
        /\ edits' = inform(es, session.inline_msg_id, m, << >>)
        /\ calls' = cs \o <<Call("editMessageText", m[1])>>
                       \o cleanUpCalls(session, f)
        /\ fs' = c.fs
        /\ unhandled' = (unhandled \/ c.raised)
        /\ pc' = "done"

\* bot.on("callback_query:data"): the constructor, then handle() up to the
\* pending download: inform("Downloading...") and ytdlp.execAsync
CallbackQuery(data, locked) ==
    /\ pc = "idle"
    /\ LET s == CallbackQueryHandler(data, UserMsg + 1)
       IN  /\ session' = s
           /\ locked \subseteq {s.storedFilePath, s.thumbFilePath, s.descrFilePath}
           /\ undeletable' = locked
           /\ edits' = inform(edits, s.inline_msg_id, <<"Downloading...">>, << >>)
           /\ calls' = calls \o <<Call("editMessageText", "Downloading..."),
                                  Call("execAsync", s.url)>>
    /\ pc' = "downloading"
    /\ UNCHANGED <<fs, msgs, errorLog, settled, unhandled, sent, progress, peer>>
    /\ UNCHANGED urlOnly

\* a then-callback that does not wait for send(): cleanUpFiles runs while
\* the upload is pending
DownloadResolvesThenCleans(thumb) ==
    /\ pc = "downloading"
    /\ thumb \subseteq {session.thumbFilePath}
    /\ LET hasDescription == session.descrFilePath \in fs
           descr == IF hasDescription THEN fileText[session.descrFilePath]
                         ELSE << >>
           f == fs \cup {session.storedFilePath} \cup thumb
       IN  /\ fs' = cleanUpFiles(session, f).fs
           /\ edits' = inform(edits, session.inline_msg_id,
                              <<"Download complete, uploading...">>, << >>)
           /\ calls' = calls \o <<Call("editMessageText", "Download complete, uploading..."),
                                  Call("readFileSync", session.descrFilePath),
                                  Call(IF session.isAudio THEN "replyWithAudio"
                                                          ELSE "replyWithVideo",
                                       session.storedFilePath)>>
                             \o cleanUpCalls(session, f)
           /\ sent' = mediaOptions(session, hasDescription, descr)
           /\ pc' = "sending"
    /\ settled' = Append(settled, Settled("execAsync", TRUE))
    /\ UNCHANGED <<session, undeletable, msgs, progress, peer, errorLog, unhandled>>
    /\ UNCHANGED urlOnly

\* the download resolves: the tool has written the media file and, when it
\* could get one, the thumbnail; the then-callback runs send() up to the
\* pending replyWithVideo / replyWithAudio. A throw inside send() rejects
\* the then-callback, and the catch runs.
DownloadResolves(thumb) ==
    /\ pc = "downloading"
    /\ thumb \subseteq {session.thumbFilePath}
    /\ LET hasDescription == session.descrFilePath \in fs
           descr == IF hasDescription THEN fileText[session.descrFilePath]
                         ELSE << >>
           f == fs \cup {session.storedFilePath} \cup thumb
           es == inform(edits, session.inline_msg_id,
                        <<"Download complete, uploading...">>, << >>)
           cs == calls \o <<Call("editMessageText", "Download complete, uploading..."),
                            Call("readFileSync", session.descrFilePath)>>
       IN  IF session.isAudio /\ audioTags(session, hasDescription, descr).threw
           THEN /\ Catch(TypeErrorText, f, cs, es)
                /\ UNCHANGED sent
           ELSE /\ fs' = f
                /\ edits' = es
                /\ calls' = Append(cs, Call(IF session.isAudio THEN "replyWithAudio"
                                                               ELSE "replyWithVideo",
                                            session.storedFilePath))
                /\ sent' = mediaOptions(session, hasDescription, descr)
                /\ pc' = "sending"
                /\ UNCHANGED <<errorLog, unhandled>>
    /\ settled' = Append(settled, Settled("execAsync", TRUE))
    /\ UNCHANGED <<session, undeletable, msgs, progress, peer>>
    /\ UNCHANGED urlOnly

\* updateDownloadMessage(n_calls, update_data) of downloadFromLink: the text
\* it would put into the status message
updateDownloadMessage(n_calls) ==
    "Downloading" \o (CASE n_calls % 3 = 0 -> "."
                        [] n_calls % 3 = 1 -> ".."
                        [] OTHER -> "...")

\* the extraction tool emits a progress event while it downloads.
\* downloadFromLink gives execAsync the arguments only: updateDownloadMessage
\* is defined and handed to nothing, so no code of the bot runs on the event
DownloadProgress ==
    /\ pc = "downloading"
    /\ progress < MaxProgress
    /\ progress' = progress + 1
    /\ UNCHANGED <<pc, session, undeletable, sent, peer, fs, msgs, edits, calls,
                   errorLog, settled, unhandled>>
    /\ UNCHANGED urlOnly

\* the download rejects with e, leaving whatever part of the two files it
\* had written; the chain skips the then-callback and runs the catch
DownloadRejects(e, partial) ==
    /\ pc = "downloading"
    /\ partial \subseteq {session.storedFilePath, session.thumbFilePath}
    /\ Catch(e, fs \cup partial, calls, edits)
    /\ settled' = Append(settled, Settled("execAsync", FALSE))
    /\ UNCHANGED <<session, undeletable, msgs, sent, progress, peer>>
    /\ UNCHANGED urlOnly

\* the upload needs both files it was given
canUpload == {session.storedFilePath, session.thumbFilePath} \subseteq fs

\* await this.send() resolves: the media message is in the chat; then
\* this.cleanUpFiles() and the pending deleteMessage of the user's message
SendResolves ==
    /\ pc = "sending"
    /\ canUpload
    /\ msgs' = msgs \cup {session.inline_msg_id + 1}
    /\ LET c == cleanUpFiles(session, fs)
           cs == calls \o cleanUpCalls(session, fs)
       IN  IF c.raised
           THEN /\ Catch(<<"e">>, c.fs, cs, edits)
           ELSE /\ fs' = c.fs
                /\ calls' = cs \o <<Call("deleteMessage",
                                         ToString(session.original_user_msg_id))>>
                /\ pc' = "deleting1"
                /\ UNCHANGED <<edits, errorLog, unhandled>>
    /\ settled' = Append(settled, Settled("send", TRUE))
    /\ UNCHANGED <<session, undeletable, sent, progress, peer>>
    /\ UNCHANGED urlOnly

\* await this.send() rejects with e
SendRejects(e) ==
    /\ pc = "sending"
    /\ Catch(e, fs, calls, edits)
    /\ settled' = Append(settled, Settled("send", FALSE))
    /\ UNCHANGED <<session, undeletable, msgs, sent, progress, peer>>
    /\ UNCHANGED urlOnly

\* the user's message is deleted; the deleteMessage of the status message
\* is issued
DeleteUserMsgResolves ==
    /\ pc = "deleting1"
    /\ session.original_user_msg_id \in msgs
    /\ msgs' = msgs \ {session.original_user_msg_id}
    /\ calls' = calls \o <<Call("deleteMessage", ToString(session.inline_msg_id))>>
    /\ pc' = "deleting2"
    /\ settled' = Append(settled, Settled("deleteMessage", TRUE))
    /\ UNCHANGED <<session, fs, undeletable, edits, errorLog, unhandled, sent, progress, peer>>
    /\ UNCHANGED urlOnly

\* the deleteMessage of the user's message rejects with e
DeleteUserMsgRejects(e) ==
    /\ pc = "deleting1"
    /\ Catch(e, fs, calls, edits)
    /\ settled' = Append(settled, Settled("deleteMessage", FALSE))
    /\ UNCHANGED <<session, undeletable, msgs, sent, progress, peer>>
    /\ UNCHANGED urlOnly

\* the status message is deleted: the then-callback ends
DeleteInlineMsgResolves ==
    /\ pc = "deleting2"
    /\ session.inline_msg_id \in msgs
    /\ msgs' = msgs \ {session.inline_msg_id}
    /\ pc' = "done"
    /\ settled' = Append(settled, Settled("deleteMessage", TRUE))
    /\ UNCHANGED <<session, fs, undeletable, edits, calls, errorLog, unhandled, sent, progress, peer>>
    /\ UNCHANGED urlOnly

\* the deleteMessage of the status message rejects with e
DeleteInlineMsgRejects(e) ==
    /\ pc = "deleting2"
    /\ Catch(e, fs, calls, edits)
    /\ settled' = Append(settled, Settled("deleteMessage", FALSE))
    /\ UNCHANGED <<session, undeletable, msgs, sent, progress, peer>>
    /\ UNCHANGED urlOnly

\* the id the next message of the chat gets
NextMsgId == (CHOOSE m \in msgs : \A n \in msgs : n <= m) + 1

\* a request that was not awaited settles. An edit can only succeed while
\* its message exists, and its failure goes to the catch of getInform; a
\* reply that succeeds adds a message, and the failure of one has no handler
RequestSettles(i, ok) ==
    /\ i \in 1..Len(edits)
    /\ edits[i].st = "pending"
    /\ (ok /\ edits[i].op = "editMessageText") => edits[i].target \in msgs
    /\ edits' = [edits EXCEPT ![i].st = IF ok THEN "ok" ELSE "failed"]
    /\ msgs' = IF ok /\ edits[i].op = "reply" THEN msgs \cup {NextMsgId} ELSE msgs
    /\ unhandled' = IF ok THEN unhandled
                    ELSE IF edits[i].caught THEN informRejected(unhandled)
                    ELSE TRUE
    /\ UNCHANGED <<pc, session, undeletable, sent, progress, peer, upc, handler,
                   processed, fs, fileText, calls, errorLog, settled>>

\* the steps of the session's own promise chain, the failing calls carrying
\* an error text of E
SessionStepOn(E) ==
    \/ \E t \in SUBSET {session.thumbFilePath} : DownloadResolves(t)
    \/ \E e \in E, p \in SUBSET {session.storedFilePath, session.thumbFilePath} :
           DownloadRejects(e, p)
    \/ SendResolves
    \/ \E e \in E : SendRejects(e)
    \/ DeleteUserMsgResolves
    \/ \E e \in E : DeleteUserMsgRejects(e)
    \/ DeleteInlineMsgResolves
    \/ \E e \in E : DeleteInlineMsgRejects(e)

SessionStep == SessionStepOn(Errors)

-----------------------------------------------------------------------------
(* A second download session *)

\* Two sessions are two CallbackQueryHandler objects: each has its own
\* fields, its own chat (the user's message 1 and the menu 2 of that chat),
\* its own requests and its own promise chain; the working directory is all
\* they share. The record peer holds what
\* the variables pc, session, sent, msgs, edits, calls, errorLog and settled
\* hold for the first session.
NoPeer ==
    [pc |-> "idle", session |-> NoSession, sent |-> NoMedia, msgs |-> {1, 2},
     edits |-> << >>, calls |-> << >>, errorLog |-> << >>, settled |-> << >>]

PeerFiles ==
    {peer.session.storedFilePath, peer.session.thumbFilePath, peer.session.descrFilePath}

\* what no step of the second session changes
peerLeaves ==
    <<pc, session, undeletable, sent, progress, msgs, edits, calls, errorLog,
      settled, unhandled>>

\* the catch callback of the second session: error(e), the report, and
\* cleanUpFiles on the files f; cs and es are its calls and requests as the
\* rejected step left them
PeerCatch(e, f, cs, es, st) ==
    LET m == fullErrorMessage("atDownload", e)
    IN  /\ peer' = [peer EXCEPT
                       !.pc = "done",
                       !.errorLog = Append(@, e),
                       !.edits = inform(es, peer.session.inline_msg_id, m, << >>),
                       !.calls = cs \o <<Call("editMessageText", m[1])>>
                                    \o cleanUpCalls(peer.session, f),
                       !.settled = Append(@, st)]
        /\ fs' = cleanUpFiles(peer.session, f).fs

\* the constructor of the second session, and handle() up to its pending
\* download
PeerCallbackQuery(data) ==
    /\ peer.pc = "idle"
    /\ LET s == CallbackQueryHandler(data, 2)
       IN  peer' = [peer EXCEPT
                       !.pc = "downloading",
                       !.session = s,
                       !.edits = inform(@, s.inline_msg_id, <<"Downloading...">>, << >>),
                       !.calls = @ \o <<Call("editMessageText", "Downloading..."),
                                        Call("execAsync", s.url)>>]
    /\ UNCHANGED fs
    /\ UNCHANGED peerLeaves
    /\ UNCHANGED urlOnly

\* its download resolves: the tool has written its media file and, when it
\* could, its thumbnail; send() runs up to the pending upload, or throws
PeerDownloadResolves(thumb) ==
    /\ peer.pc = "downloading"
    /\ thumb \subseteq {peer.session.thumbFilePath}
    /\ LET s == peer.session
           hasDescription == s.descrFilePath \in fs
           descr == IF hasDescription THEN fileText[s.descrFilePath] ELSE << >>
           f == fs \cup {s.storedFilePath} \cup thumb
           es == inform(peer.edits, s.inline_msg_id,
                        <<"Download complete, uploading...">>, << >>)
           cs == peer.calls \o <<Call("editMessageText", "Download complete, uploading..."),
                                 Call("readFileSync", s.descrFilePath)>>
       IN  IF s.isAudio /\ audioTags(s, hasDescription, descr).threw
           THEN PeerCatch(TypeErrorText, f, cs, es, Settled("execAsync", TRUE))
           ELSE /\ fs' = f
                /\ peer' = [peer EXCEPT
                               !.pc = "sending",
                               !.sent = mediaOptions(s, hasDescription, descr),
                               !.edits = es,
                               !.calls = Append(cs, Call(IF s.isAudio THEN "replyWithAudio"
                                                                      ELSE "replyWithVideo",
                                                         s.storedFilePath)),
                               !.settled = Append(@, Settled("execAsync", TRUE))]
    /\ UNCHANGED peerLeaves
    /\ UNCHANGED urlOnly

\* its download rejects with e, leaving part of its files
PeerDownloadRejects(e, partial) ==
    /\ peer.pc = "downloading"
    /\ partial \subseteq {peer.session.storedFilePath, peer.session.thumbFilePath}
    /\ PeerCatch(e, fs \cup partial, peer.calls, peer.edits, Settled("execAsync", FALSE))
    /\ UNCHANGED peerLeaves
    /\ UNCHANGED urlOnly

\* its send() resolves: the media message is in its chat; cleanUpFiles and
\* the pending deleteMessage of the user's message
PeerSendResolves ==
    /\ peer.pc = "sending"
    /\ {peer.session.storedFilePath, peer.session.thumbFilePath} \subseteq fs
    /\ fs' = cleanUpFiles(peer.session, fs).fs
    /\ peer' = [peer EXCEPT
                   !.pc = "deleting1",
                   !.msgs = @ \cup {peer.session.inline_msg_id + 1},
                   !.calls = @ \o cleanUpCalls(peer.session, fs)
                               \o <<Call("deleteMessage",
                                         ToString(peer.session.original_user_msg_id))>>,
                   !.settled = Append(@, Settled("send", TRUE))]
    /\ UNCHANGED peerLeaves
    /\ UNCHANGED urlOnly

\* its send() rejects with e
PeerSendRejects(e) ==
    /\ peer.pc = "sending"
    /\ PeerCatch(e, fs, peer.calls, peer.edits, Settled("send", FALSE))
    /\ UNCHANGED peerLeaves
    /\ UNCHANGED urlOnly

\* the user's message of its chat is deleted; the deleteMessage of its
\* status message is issued
PeerDeleteUserMsgResolves ==
    /\ peer.pc = "deleting1"
    /\ peer.session.original_user_msg_id \in peer.msgs
    /\ peer' = [peer EXCEPT
                   !.pc = "deleting2",
                   !.msgs = @ \ {peer.session.original_user_msg_id},
                   !.calls = Append(@, Call("deleteMessage",
                                            ToString(peer.session.inline_msg_id))),
                   !.settled = Append(@, Settled("deleteMessage", TRUE))]
    /\ UNCHANGED fs
    /\ UNCHANGED peerLeaves
    /\ UNCHANGED urlOnly

\* the deleteMessage of the user's message rejects with e
PeerDeleteUserMsgRejects(e) ==
    /\ peer.pc = "deleting1"
    /\ PeerCatch(e, fs, peer.calls, peer.edits, Settled("deleteMessage", FALSE))
    /\ UNCHANGED peerLeaves
    /\ UNCHANGED urlOnly

\* its status message is deleted: the then-callback ends
PeerDeleteInlineMsgResolves ==
    /\ peer.pc = "deleting2"
    /\ peer.session.inline_msg_id \in peer.msgs
    /\ peer' = [peer EXCEPT
                   !.pc = "done",
                   !.msgs = @ \ {peer.session.inline_msg_id},
                   !.settled = Append(@, Settled("deleteMessage", TRUE))]
    /\ UNCHANGED fs
    /\ UNCHANGED peerLeaves
    /\ UNCHANGED urlOnly

\* the deleteMessage of its status message rejects with e
PeerDeleteInlineMsgRejects(e) ==
    /\ peer.pc = "deleting2"
    /\ PeerCatch(e, fs, peer.calls, peer.edits, Settled("deleteMessage", FALSE))
    /\ UNCHANGED peerLeaves
    /\ UNCHANGED urlOnly

\* an edit of the second session settles; a failure goes to the catch of
\* getInform
PeerRequestSettles(i, ok) ==
    /\ i \in 1..Len(peer.edits)
    /\ peer.edits[i].st = "pending"
    /\ ok => peer.edits[i].target \in peer.msgs
    /\ peer' = [peer EXCEPT !.edits[i].st = IF ok THEN "ok" ELSE "failed"]
    /\ UNCHANGED fs
    /\ UNCHANGED peerLeaves
    /\ UNCHANGED urlOnly

-----------------------------------------------------------------------------
(* URLMessageHandler and FormatCommandHandler *)

\* the handler before any update; text is the text of the message of its
\* ctx
NoHandler ==
    [kind |-> "none", valid |-> FALSE, url |-> "", bot_msg_id |-> 0, user_msg_id |-> 0,
     text |-> << >>]

NoURLReply == <<"I can only process YouTube links. ...">>

\* the text of the error decides the category of the report
fetchErrorCategory(e) ==
    IF "not a valid URL" \in Range(e) THEN "badURL" ELSE "atGettingInfo"

\* the catch callback of URLMessageHandler.handle: error(e), then the report
\* through this.inform. The getter of inform needs bot_msg_id, whose getter
\* throws while _bot_msg_id is undefined (0); nothing catches that.
URLCatch(e, cs) ==
    /\ errorLog' = Append(errorLog, e)
    /\ IF handler.bot_msg_id = 0
       THEN /\ unhandled' = TRUE
            /\ UNCHANGED edits
            /\ calls' = cs
       ELSE /\ edits' = inform(edits, handler.bot_msg_id,
                               fullErrorMessage(fetchErrorCategory(e), e), << >>)
            /\ calls' = Append(cs, Call("editMessageText",
                                        errorMessages[fetchErrorCategory(e)]))
            /\ UNCHANGED unhandled
    /\ upc' = "done"

\* bot.on("message::url"): the constructor and, for a valid handler,
\* handle() up to the pending reply of fetchVideoInfo
URLMessage(text) ==
    /\ upc = "idle"
    /\ \E url \in {extractYoutubeURL(text)} :
       LET user_msg_id == UserMsg
       IN  IF url = << >>
           THEN /\ handler' = [NoHandler EXCEPT !.kind = "url", !.text = text,
                                                !.user_msg_id = user_msg_id]
                /\ edits' = replyUnawaited(edits, NoURLReply)
                /\ calls' = Append(calls, Call("reply", NoURLReply[1]))
                /\ upc' = "done"
           ELSE /\ handler' = [NoHandler EXCEPT !.kind = "url", !.valid = TRUE,
                                                !.url = Join(url), !.text = text,
                                                !.user_msg_id = user_msg_id]
                /\ calls' = Append(calls, Call("reply", "Gathering video info..."))
                /\ upc' = "acking"
                /\ UNCHANGED edits
    /\ UNCHANGED <<processed, fs, fileText, msgs, errorLog, settled, unhandled>>
    /\ UNCHANGED dlOnly

\* the acknowledgment is sent: its id becomes _bot_msg_id and the metadata
\* fetch is issued
AckResolves ==
    /\ upc = "acking"
    /\ msgs' = msgs \cup {NextMsgId}
    /\ handler' = [handler EXCEPT !.bot_msg_id = NextMsgId]
    /\ calls' = Append(calls, Call("execAsync", handler.url))
    /\ settled' = Append(settled, Settled("reply", TRUE))
    /\ upc' = "fetching"
    /\ UNCHANGED <<processed, fs, fileText, edits, errorLog, unhandled>>
    /\ UNCHANGED dlOnly

\* a failed acknowledgment after which the fetch is issued all the same
AckRejectsThenFetches(e) ==
    /\ upc = "acking"
    /\ errorLog' = Append(errorLog, e)
    /\ calls' = Append(calls, Call("execAsync", handler.url))
    /\ settled' = Append(settled, Settled("reply", FALSE))
    /\ upc' = "fetching"
    /\ UNCHANGED <<handler, processed, fs, fileText, msgs, edits, unhandled>>
    /\ UNCHANGED dlOnly

\* the acknowledgment fails with e: the chain goes to the catch of handle
AckRejects(e) ==
    /\ upc = "acking"
    /\ URLCatch(e, calls)
    /\ settled' = Append(settled, Settled("reply", FALSE))
    /\ UNCHANGED <<handler, processed, fs, fileText, msgs>>
    /\ UNCHANGED dlOnly

\* the metadata fetch fails with e, or its output is no JSON and the parse
\* throws e
FetchRejects(e) ==
    /\ upc = "fetching"
    /\ URLCatch(e, calls)
    /\ settled' = Append(settled, Settled("execAsync", FALSE))
    /\ UNCHANGED <<handler, processed, fs, fileText, msgs>>
    /\ UNCHANGED dlOnly

\* the metadata arrive: processVideoInfo (the description file is written,
\* or the write fails and is logged), buildInlineKeyboard, and the edit of
\* the acknowledgment into the menu; a throw of buildInlineKeyboard goes to
\* the catch of handle
FetchResolves(info, writeOk) ==
    /\ upc = "fetching"
    /\ \E result \in {processVideoInfo(info)} :
       \E built \in {buildInlineKeyboard(info, result, handler.user_msg_id)} :
       LET path == result.video_id \o "-descr.txt"
           cs == Append(calls, Call("writeFileSync", path))
       IN  /\ processed' = <<[info |-> info, result |-> result]>>
           /\ IF writeOk
              THEN /\ fs' = fs \cup {path}
                   /\ fileText' = [fileText EXCEPT ![path] = videoDescr(info, handler.url)]
              ELSE UNCHANGED <<fs, fileText>>
           /\ IF built.threw
              THEN URLCatch(TypeErrorText, cs)
              ELSE /\ edits' = inform(edits, handler.bot_msg_id,
                                      <<"Select one option:">>, built.keyboard)
                   /\ calls' = Append(cs, Call("editMessageText", "Select one option:"))
                   /\ upc' = "done"
                   /\ UNCHANGED <<errorLog, unhandled>>
    /\ settled' = Append(settled, Settled("execAsync", TRUE))
    /\ UNCHANGED <<handler, msgs>>
    /\ UNCHANGED dlOnly

\* text.split("/format ")[1]: what stands between the first "/format " and
\* the next one; with no "/format " in the text there is no second part
formatArgument(text) ==
    LET sep == <<"/", "f", "o", "r", "m", "a", "t", " ">>
        at == {i \in 1..Len(text) : LitAt(text, i, sep)}
    IN  IF at = {} THEN [undefined |-> TRUE, text |-> << >>]
        ELSE LET first == CHOOSE i \in at : \A j \in at : i <= j
                 from == first + Len(sep)
                 later == {i \in at : i >= from}
                 to == IF later = {} THEN Len(text)
                       ELSE (CHOOSE i \in later : \A j \in later : i <= j) - 1
             IN  [undefined |-> FALSE, text |-> SubSeq(text, from, to)]

\* bot.command("format"): the constructor and, for a valid handler, handle()
\* up to the pending metadata fetch. extractYoutubeURL(undefined) throws in
\* the constructor, which nothing catches.
FormatCommand(text) ==
    /\ upc = "idle"
    /\ \E arg \in {formatArgument(text)} :
       \E url \in {IF arg.undefined THEN << >> ELSE extractYoutubeURL(arg.text)} :
       LET user_msg_id == UserMsg
           h == [NoHandler EXCEPT !.kind = "format", !.text = text,
                                  !.user_msg_id = user_msg_id]
       IN  IF arg.undefined
           THEN /\ handler' = h
                /\ unhandled' = TRUE
                /\ upc' = "done"
                /\ UNCHANGED <<edits, calls>>
           ELSE IF url = << >>
           THEN /\ handler' = h
                /\ edits' = replyUnawaited(edits, NoURLReply)
                /\ calls' = Append(calls, Call("reply", NoURLReply[1]))
                /\ upc' = "done"
                /\ UNCHANGED unhandled
           ELSE /\ handler' = [h EXCEPT !.valid = TRUE, !.url = Join(url)]
                /\ edits' = inform(edits, user_msg_id, <<"Gathering video info...">>, << >>)
                /\ calls' = calls \o <<Call("editMessageText", "Gathering video info..."),
                                       Call("execAsync", Join(url))>>
                /\ upc' = "formatting"
                /\ UNCHANGED unhandled
    /\ UNCHANGED <<processed, fs, fileText, msgs, errorLog, settled>>
    /\ UNCHANGED dlOnly

\* the metadata fetch of /format resolves: the description and the link go
\* into the edit
FormatFetchResolves(info) ==
    /\ upc = "formatting"
    /\ edits' = inform(edits, handler.user_msg_id,
                       generateDescription(info) \o <<"\n", handler.url>>, << >>)
    /\ calls' = Append(calls, Call("editMessageText", "<b>["))
    /\ settled' = Append(settled, Settled("execAsync", TRUE))
    /\ upc' = "done"
    /\ UNCHANGED <<handler, processed, fs, fileText, msgs, errorLog, unhandled>>
    /\ UNCHANGED dlOnly

\* the metadata fetch of /format fails with e, or its output is no JSON
FormatFetchRejects(e) ==
    /\ upc = "formatting"
    /\ errorLog' = Append(errorLog, e)
    /\ edits' = inform(edits, handler.user_msg_id,
                       fullErrorMessage(fetchErrorCategory(e), e), << >>)
    /\ calls' = Append(calls, Call("editMessageText",
                                   errorMessages[fetchErrorCategory(e)]))
    /\ settled' = Append(settled, Settled("execAsync", FALSE))
    /\ upc' = "done"
    /\ UNCHANGED <<handler, processed, fs, fileText, msgs, unhandled>>
    /\ UNCHANGED dlOnly

\* new DefaultMessageHandler(ctx).handle(): in a private chat the text about
\* YouTube links goes, through inform, into an edit of the user's own
\* message; in any other chat nothing is issued
DefaultMessage(text, chat_type) ==
    /\ upc = "idle"
    /\ handler' = [NoHandler EXCEPT !.kind = "default", !.text = text,
                                    !.user_msg_id = UserMsg]
    /\ IF chat_type = "private"
       THEN /\ edits' = inform(edits, UserMsg, NoURLReply, << >>)
            /\ calls' = Append(calls, Call("editMessageText", NoURLReply[1]))
       ELSE UNCHANGED <<edits, calls>>
    /\ upc' = "done"
    /\ UNCHANGED <<processed, fs, fileText, msgs, errorLog, settled, unhandled>>
    /\ UNCHANGED dlOnly

\* the handler that takes a message update (its text, whether the
\* transport marked a link in it as a url entity, and the type of its
\* chat): the handlers are tried in the order of their registration,
\* bot.on("message::url") first, then bot.command("format") for a text that
\* starts with the command, then bot.on("message"), and none of them hands
\* the update on
dispatch(update) ==
    LET text == update.text
        isFormatCommand ==
            /\ LitAt(text, 1, <<"/", "f", "o", "r", "m", "a", "t">>)
            /\ Len(text) = 7 \/ text[8] \in SpaceChars
    IN  IF update.url_entity THEN "message::url"
        ELSE IF isFormatCommand THEN "format"
        ELSE "message"


-----------------------------------------------------------------------------
(* The inputs of the model *)

Format(format_id, vcodec, acodec, filesize, height, width) ==
    [format_id |-> format_id, vcodec |-> vcodec, acodec |-> acodec,
     filesize |-> filesize, height |-> height, width |-> width]

\* the formats the extraction tool can report; 0 stands for a number the
\* tool left out
FormatCatalogue ==
    {Format("139", "none", "mp4a", 0,        0,    0),
     Format("140", "none", "mp4a", 1572864,  0,    0),
     Format("251", "none", "opus", 3145728,  0,    0),
     Format("160", "avc1", "none", 2097152,  0,    0),
     Format("133", "avc1", "none", 31457280, 240,  426),
     Format("18",  "avc1", "mp4a", 8388608,  360,  640),
     Format("247", "vp9",  "none", 10485760, 720,  1280),
     Format("136", "avc1", "none", 20971520, 720,  1280),
     Format("137", "avc1", "none", 0,        1080, 1920)}

FormatLists == UNION {[1..n -> FormatCatalogue] : n \in 0..MaxFormats}

VideoInfo(id, formats) ==
    [id |-> id, title |-> "Title", uploader |-> "Uploader", duration |-> 212,
     formats |-> formats]

\* the metadata the extraction tool can return
Infos == {VideoInfo(v, fl) : v \in VideoIds, fl \in FormatLists}

\* what the tool says when it cannot reach the site
NetworkText == "Unable to download webpage"

\* the failures of the extraction tool: any error text, the tool's
\* complaint about the URL, and its complaint about the network
ToolErrors == Errors \cup {<<"e", "not a valid URL">>, <<"e", NetworkText>>}

\* the texts of the messages that carry a link
UrlTexts ==
    {
        \* see https://youtu.be/dQw4w9WgXcQ?feature=share now
        <<"s", "e", "e", " ", "h", "t", "t", "p", "s", ":", "/", "/", "y",
          "o", "u", "t", "u", ".", "b", "e", "/", "d", "Q", "w", "4", "w",
          "9", "W", "g", "X", "c", "Q", "?", "f", "e", "a", "t", "u", "r",
          "e", "=", "s", "h", "a", "r", "e", " ", "n", "o", "w">>,
        \* https://www.youtube.com/watch?v=dQw4w9WgXcQ
        <<"h", "t", "t", "p", "s", ":", "/", "/", "w", "w", "w", ".", "y",
          "o", "u", "t", "u", "b", "e", ".", "c", "o", "m", "/", "w", "a",
          "t", "c", "h", "?", "v", "=", "d", "Q", "w", "4", "w", "9", "W",
          "g", "X", "c", "Q">>,
        \* http://example.com/x
        <<"h", "t", "t", "p", ":", "/", "/", "e", "x", "a", "m", "p", "l",
          "e", ".", "c", "o", "m", "/", "x">>,
        \* https://youtu.be/short
        <<"h", "t", "t", "p", "s", ":", "/", "/", "y", "o", "u", "t", "u",
          ".", "b", "e", "/", "s", "h", "o", "r", "t">>
    }

\* the texts of the /format commands
CommandTexts ==
    {
        \* /format https://youtu.be/dQw4w9WgXcQ
        <<"/", "f", "o", "r", "m", "a", "t", " ", "h", "t", "t", "p", "s",
          ":", "/", "/", "y", "o", "u", "t", "u", ".", "b", "e", "/", "d",
          "Q", "w", "4", "w", "9", "W", "g", "X", "c", "Q">>,
        \* /format
        <<"/", "f", "o", "r", "m", "a", "t">>,
        \* /format hello
        <<"/", "f", "o", "r", "m", "a", "t", " ", "h", "e", "l", "l", "o">>
    }

\* the message updates: the texts with a link, the commands, and the texts
\* "hello" and "" with neither; the transport marks a link only where the
\* text holds one, and leaves a link unmarked when the user wrote it as code
Updates ==
    {u \in {[text |-> t, url_entity |-> e, chat_type |-> c] :
               t \in UrlTexts \cup CommandTexts \cup {<<"h", "e", "l", "l", "o">>, << >>},
               e \in BOOLEAN, c \in {"private", "group"}} :
        u.url_entity => \E i \in 1..Len(u.text) : schemeEnd(u.text, i) # 0}

\* the texts of the updates a handler takes
Routed(route) == {u \in Updates : dispatch(u) = route}

\* the files of the working directory a session can meet
WorkFiles ==
    {v \o x : v \in VideoIds, x \in {".mp4", ".m4a", ".jpg", ".m4a.jpg", "-descr.txt"}}

DescrFiles == {v \o "-descr.txt" : v \in VideoIds}

\* at most one file of the directory is undeletable during a session
LockedSets == {{}} \cup {{p} : p \in WorkFiles}

\* the menu a session starts from: built for a video with an audio format
\* and a 720p format, in answer to message user_msg_id
MenuInfos ==
    {VideoInfo(v, <<Format("140", "none", "mp4a", 1572864, 0, 0),
                    Format("136", "avc1", "none", 20971520, 720, 1280)>>)
     : v \in VideoIds}

MenuData(user_msg_id) ==
    UNION {{b.data : b \in Range(buildInlineKeyboard(
                                     info, processVideoInfo(info), user_msg_id).keyboard)}
           : info \in MenuInfos}

-----------------------------------------------------------------------------
(* The specifications *)

\* what every specification starts from
InitCommon ==
    /\ pc = "idle"
    /\ session = NoSession
    /\ undeletable = {}
    /\ sent = NoMedia
    /\ progress = 0
    /\ peer = NoPeer
    /\ upc = "idle"
    /\ handler = NoHandler
    /\ processed = << >>
    /\ edits = << >>
    /\ calls = << >>
    /\ errorLog = << >>
    /\ settled = << >>
    /\ unhandled = FALSE

\* a download session: the chat holds the user's message and the menu that
\* answers it; the description file of the video is there, unless its
\* write had failed
Init ==
    /\ InitCommon
    /\ msgs = {1, 2}
    /\ fs \in SUBSET DescrFiles
    /\ fileText = [p \in DescrFiles |->
                      IF p \in fs
                      THEN LET i == CHOOSE i \in MenuInfos : i.id \o "-descr.txt" = p
                           IN  videoDescr(i, "https://youtu.be/" \o i.id)
                      ELSE << >>]

Next ==
    \/ \E d \in MenuData(UserMsg), l \in LockedSets : CallbackQuery(d, l)
    \/ SessionStep
    \/ \E i \in 1..Len(edits), ok \in BOOLEAN : RequestSettles(i, ok)

Spec == Init /\ [][Next]_vars

\* the error texts of the specification with fairness: the text of an error
\* decides no step of a session
FairErrors == {e \in Errors : Len(e) <= 1}

FairNext ==
    \/ \E d \in MenuData(UserMsg), l \in LockedSets : CallbackQuery(d, l)
    \/ SessionStepOn(FairErrors)
    \/ \E i \in 1..Len(edits), ok \in BOOLEAN : RequestSettles(i, ok)

\* every awaited call of the transport and of the tool eventually settles
FairSpec == Init /\ [][FairNext]_vars /\ WF_vars(SessionStepOn(FairErrors))

\* what a description file can hold when a session reads it: what
\* processVideoInfo wrote, the same for a channel named "... - Topic" or
\* for a video with no title and no uploader, and what is no description
\* of the bot's (two lines of another shape, a single line)
DescrTexts ==
    {videoDescr(i, "https://youtu.be/" \o i.id) : i \in MenuInfos}
    \cup {<<"<b>[", "3m 32s", "]</b>", " ", "Title", "\n",
            "By <b>", "Uploader", " - Topic", "</b>", "\n", "https://youtu.be/x">>,
          <<"<b>[", "3m 32s", "]</b>", " ", "\n", "By <b>", "</b>", "\n",
            "https://youtu.be/x">>,
          <<"hello", "\n", "world">>,
          <<"hello">>}

\* a download session that finds any of these description files, or none
SendInit ==
    /\ InitCommon
    /\ msgs = {1, 2}
    /\ fs \in SUBSET DescrFiles
    /\ fileText \in [DescrFiles -> DescrTexts \cup {<< >>}]
    /\ \A p \in DescrFiles : p \in fs <=> fileText[p] # << >>

\* sessions over these description files, with the progress events of the
\* download
SendNext ==
    \/ \E d \in MenuData(UserMsg), l \in LockedSets : CallbackQuery(d, l)
    \/ DownloadProgress
    \/ SessionStepOn(FairErrors)
    \/ \E i \in 1..Len(edits), ok \in BOOLEAN : RequestSettles(i, ok)

SendSpec == SendInit /\ [][SendNext]_vars

\* two sessions at once, for two videos: the description file of each is
\* there or not; the calls of the first session fail with one error text
\* and every file can be removed
PeerDescrFiles == {v \o "-descr.txt" : v \in PeerVideoIds}

PeerMenuData(user_msg_id) ==
    UNION {{b.data : b \in Range(buildInlineKeyboard(
                                     info, processVideoInfo(info), user_msg_id).keyboard)}
           : info \in {VideoInfo(v, i.formats) : v \in PeerVideoIds, i \in MenuInfos}}

PairErrors == {<<"e">>}

PairInit ==
    /\ InitCommon
    /\ msgs = {1, 2}
    /\ fs \in SUBSET (DescrFiles \cup PeerDescrFiles)
    /\ fileText = [p \in DescrFiles \cup PeerDescrFiles |->
                      IF p \in fs
                      THEN LET v == CHOOSE v \in VideoIds \cup PeerVideoIds :
                                        v \o "-descr.txt" = p
                               i == CHOOSE i \in MenuInfos : TRUE
                           IN  videoDescr(i, "https://youtu.be/" \o v)
                      ELSE << >>]

PairNext ==
    \/ \E d \in MenuData(UserMsg) : CallbackQuery(d, {})
    \/ SessionStepOn(PairErrors)
    \/ \E i \in 1..Len(edits), ok \in BOOLEAN : RequestSettles(i, ok)
    \/ \E d \in PeerMenuData(1) : PeerCallbackQuery(d)
    \/ \E t \in SUBSET {peer.session.thumbFilePath} : PeerDownloadResolves(t)
    \/ \E e \in PairErrors,
          p \in SUBSET {peer.session.storedFilePath, peer.session.thumbFilePath} :
           PeerDownloadRejects(e, p)
    \/ PeerSendResolves
    \/ \E e \in PairErrors : PeerSendRejects(e)
    \/ PeerDeleteUserMsgResolves
    \/ \E e \in PairErrors : PeerDeleteUserMsgRejects(e)
    \/ PeerDeleteInlineMsgResolves
    \/ \E e \in PairErrors : PeerDeleteInlineMsgRejects(e)
    \/ \E i \in 1..Len(peer.edits), ok \in BOOLEAN : PeerRequestSettles(i, ok)

PairSpec == PairInit /\ [][PairNext]_vars

\* a message with a link, or a /format command: the chat holds the user's
\* message, the working directory is empty
UrlInit ==
    /\ InitCommon
    /\ msgs = {1}
    /\ fs = {}
    /\ fileText = [p \in DescrFiles |-> << >>]

UrlNext ==
    \/ \E u \in Routed("message::url") : URLMessage(u.text)
    \/ AckResolves
    \/ \E e \in Errors : AckRejects(e)
    \/ \E e \in ToolErrors : FetchRejects(e)
    \/ \E info \in Infos, w \in BOOLEAN : FetchResolves(info, w)
    \/ \E u \in Routed("format") : FormatCommand(u.text)
    \/ \E u \in Routed("message") : DefaultMessage(u.text, u.chat_type)
    \/ \E info \in Infos : FormatFetchResolves(info)
    \/ \E e \in ToolErrors : FormatFetchRejects(e)
    \/ \E i \in 1..Len(edits), ok \in BOOLEAN : RequestSettles(i, ok)

UrlSpec == UrlInit /\ [][UrlNext]_vars

\* the metadata of a video with an audio format and one video format of
\* height h
TierInfo(h) ==
    VideoInfo("dQw4w9WgXcQ",
              <<Format("140", "none", "mp4a", 1572864, 0, 0),
                Format("v", "avc1", "none", 2097152, h, 0)>>)

\* a message with a link to a video whose one video format has any height
TierNext ==
    \/ URLMessage(CHOOSE t \in UrlTexts : extractYoutubeURL(t) # << >>)
    \/ AckResolves
    \/ \E h \in 1..MaxHeight : FetchResolves(TierInfo(h), TRUE)

TierSpec == UrlInit /\ [][TierNext]_vars

\* the metadata of a video with an audio format and one video format
PayloadInfo(format_id, duration, height, width) ==
    [VideoInfo("dQw4w9WgXcQ",
               <<Format("140", "none", "mp4a", 1572864, 0, 0),
                 Format(format_id, "avc1", "none", 2097152, height, width)>>)
     EXCEPT !.duration = duration]

\* a message with a link to a video with any of these metadata: format
\* ids, durations, heights and widths as the tool reports them for the
\* usual formats, and values as long as the type of the field allows (a
\* format id is any string, a duration any number, a width can be missing)
PayloadNext ==
    \/ URLMessage(CHOOSE t \in UrlTexts : extractYoutubeURL(t) # << >>)
    \/ AckResolves
    \/ \E f \in {"18", "137", "399", "616", "137-drc",
                  "hls-fastly_skyfire_sep-audio_high-video_1080p"},
          d \in {7, 212, 43200, 1000000},
          h \in {144, 720, 4320},
          w \in {0, 256, 1280, 7680} :
           FetchResolves(PayloadInfo(f, d, h, w), TRUE)

PayloadSpec == UrlInit /\ [][PayloadNext]_vars

-----------------------------------------------------------------------------
(* The texts around a link *)

\* well-formed links: one of each shape youtubeRegex takes, with and
\* without a query string
ProseUrls ==
    {
        \* "https://youtu.be/dQw4w9WgXcQ"
        <<"h", "t", "t", "p", "s", ":", "/", "/", "y", "o", "u", "t", "u",
          ".", "b", "e", "/", "d", "Q", "w", "4", "w", "9", "W", "g", "X",
          "c", "Q">>,
        \* "https://www.youtube.com/watch?v=dQw4w9WgXcQ&t=42s"
        <<"h", "t", "t", "p", "s", ":", "/", "/", "w", "w", "w", ".", "y",
          "o", "u", "t", "u", "b", "e", ".", "c", "o", "m", "/", "w", "a",
          "t", "c", "h", "?", "v", "=", "d", "Q", "w", "4", "w", "9", "W",
          "g", "X", "c", "Q", "&", "t", "=", "4", "2", "s">>,
        \* "http://music.youtube.com/watch?v=dQw4w9WgXcQ&list=PL"
        <<"h", "t", "t", "p", ":", "/", "/", "m", "u", "s", "i", "c", ".",
          "y", "o", "u", "t", "u", "b", "e", ".", "c", "o", "m", "/", "w",
          "a", "t", "c", "h", "?", "v", "=", "d", "Q", "w", "4", "w", "9",
          "W", "g", "X", "c", "Q", "&", "l", "i", "s", "t", "=", "P", "L">>,
        \* "https://youtube.com/shorts/dQw4w9WgXcQ?feature=share"
        <<"h", "t", "t", "p", "s", ":", "/", "/", "y", "o", "u", "t", "u",
          "b", "e", ".", "c", "o", "m", "/", "s", "h", "o", "r", "t", "s",
          "/", "d", "Q", "w", "4", "w", "9", "W", "g", "X", "c", "Q", "?",
          "f", "e", "a", "t", "u", "r", "e", "=", "s", "h", "a", "r", "e">>
    }

\* what stands before a link: prose that ends in white space, and prose
\* that touches the link (the empty text is added where the texts are made)
ProseBefore ==
    {
        \* "see "
        <<"s", "e", "e", " ">>,
        \* "look:\n"
        <<"l", "o", "o", "k", ":", "\n">>,
        \* "("
        <<"(">>,
        \* "x"
        <<"x">>
    }

\* what stands after a link: prose that starts with white space, and
\* punctuation that touches the link
ProseAfter ==
    {
        \* " now"
        <<" ", "n", "o", "w">>,
        \* "\nbye"
        <<"\n", "b", "y", "e">>,
        \* ","
        <<",">>,
        \* ") ok"
        <<")", " ", "o", "k">>,
        \* "."
        <<".">>
    }

\* the texts of the messages: a link with or without prose on either side
ProseTexts ==
    {b \o u \o a : b \in ProseBefore \cup {<< >>}, u \in ProseUrls,
                   a \in ProseAfter \cup {<< >>}}

\* a message with one link among prose, up to the pending metadata fetch
ExtractNext ==
    \/ \E t \in ProseTexts : URLMessage(t)
    \/ AckResolves
    \/ \E e \in FairErrors : AckRejects(e)

ExtractSpec == UrlInit /\ [][ExtractNext]_vars

-----------------------------------------------------------------------------
(* Properties of the download session (CallbackQueryHandler) *)

\* the positions of the calls of operation op in the order of issue
CallsOf(op) == {i \in 1..Len(calls) : calls[i].op = op}

SessionFiles == {session.storedFilePath, session.thumbFilePath, session.descrFilePath}

CleanUpCalled == CallsOf("cleanUpFiles") # {}

DownloadFailed == Settled("execAsync", FALSE) \in Range(settled)

MediaSent == Settled("send", TRUE) \in Range(settled)

\* the id the media message gets: the one after the status message
MediaMsg == session.inline_msg_id + 1

\* the positions of the edits that carry the DownloadFailed text
FailureEdits == {i \in 1..Len(edits) : edits[i].msg[1] = errorMessages.atDownload}

\* C1 (as claimed): once the session is over, unlinkSync has been attempted
\* on each of the three artifact files, and none of them that could be
\* deleted is left, whichever of them were missing or undeletable.
C1_AllThreeAttempted ==
    pc = "done" =>
        \A p \in SessionFiles :
            /\ Call("unlinkSync", p) \in Range(calls)
            /\ p \in fs => p \in undeletable

\* C2: a session ends only after cleanUpFiles was invoked, and every started
\* session whose pending calls settle comes to invoke it.
C2_CleanupEventually ==
    /\ [](pc = "done" => CleanUpCalled)
    /\ (pc = "downloading") ~> (pc = "done" /\ CleanUpCalled)

\* C2 witness: a session that ended on a failed download, cleanup invoked
C2_Witness ==
    /\ pc = "done"
    /\ DownloadFailed
    /\ CleanUpCalled

\* C4 (as claimed): once the media message is sent and the session is over,
\* the deletion of the user's message and that of the status message were
\* both attempted, and if both succeeded only the media message is left.
C4_BothDeletionsAttempted ==
    (pc = "done" /\ MediaSent) =>
        /\ Call("deleteMessage", ToString(session.original_user_msg_id)) \in Range(calls)
        /\ Call("deleteMessage", ToString(session.inline_msg_id)) \in Range(calls)
        /\ (Len(settled) = 4 /\ \A i \in 3..4 : settled[i].ok) => msgs = {MediaMsg}

\* a text holds no tag: no '<' with a '>' somewhere after it
NoTag(t) == ~ \E i, j \in 1..Len(t) : i < j /\ t[i] = "<" /\ t[j] = ">"

\* t is s with some of its characters left out
RECURSIVE IsSubSeq(_, _)
IsSubSeq(t, s) ==
    IF t = << >> THEN TRUE
    ELSE IF s = << >> THEN FALSE
    ELSE IF Head(t) = Head(s) THEN IsSubSeq(Tail(t), Tail(s))
    ELSE IsSubSeq(t, Tail(s))

\* C5: a failed download ends the session with an edit of the status
\* message to the atDownload text followed by the error text without its
\* tags, with cleanUpFiles invoked and with no media message sent.
C5_DownloadFailureReported ==
    DownloadFailed =>
        /\ pc = "done"
        /\ \E i \in 1..Len(edits) :
               LET m == edits[i].msg
                   t == SubSeq(m, 3, Len(m))
                   e == errorLog[1]
               IN  /\ edits[i].target = session.inline_msg_id
                   /\ m[1] = errorMessages.atDownload
                   /\ m[2] = "\nError log: "
                   /\ NoTag(t)
                   /\ IsSubSeq(t, e)
                   /\ NoTag(e) => t = e
        /\ CleanUpCalled
        /\ CallsOf("replyWithVideo") \cup CallsOf("replyWithAudio") = {}
        /\ MediaMsg \notin msgs

\* C5 witness: a download failed with an error text that holds a tag
C5_Witness ==
    /\ DownloadFailed
    /\ ~NoTag(errorLog[1])
    /\ Len(sanitizedError(errorLog[1])) > 0

\* C6 (as claimed): on a failed download cleanUpFiles is called before the
\* edit that carries the DownloadFailed text is issued.
C6_CleanupBeforeReport ==
    DownloadFailed =>
        \A i \in CallsOf("editMessageText") :
            calls[i].arg = errorMessages.atDownload =>
                \E j \in CallsOf("cleanUpFiles") : j < i

\* C6 (amended): on a failed download the edit that carries the
\* DownloadFailed text is issued first and cleanUpFiles is called after it,
\* in the same callback and without waiting for the edit: when that edit
\* settles, cleanUpFiles has run.
C6_ReportIssuedThenCleanup ==
    DownloadFailed =>
        /\ \E i \in CallsOf("editMessageText") :
               /\ calls[i].arg = errorMessages.atDownload
               /\ \E j \in CallsOf("cleanUpFiles") : i < j
               /\ \A j \in CallsOf("cleanUpFiles") : i < j
        /\ \A k \in FailureEdits : edits[k].st # "pending" => CleanUpCalled

\* C6 witness: the DownloadFailed edit of a failed download has settled
C6_Witness ==
    /\ DownloadFailed
    /\ \E k \in FailureEdits : edits[k].st = "ok"

\* C7: a failing edit changes nothing but its own record: the session's
\* position, calls, files, messages and the unhandled flag stay as they
\* are, and a session that has not ended can still take its next step.
C7_EditFailureNeverAborts ==
    /\ [][(\E i \in 1..Len(edits) :
              /\ i <= Len(edits')
              /\ edits[i].st = "pending"
              /\ edits'[i].st = "failed")
          => /\ UNCHANGED <<pc, session, fs, msgs, calls, errorLog, settled, unhandled>>
             /\ Len(edits') = Len(edits)]_vars
    /\ []((pc \in {"downloading", "sending", "deleting1", "deleting2"}
           /\ \E i \in 1..Len(edits) : edits[i].st = "failed")
          => ENABLED SessionStep)
    /\ [](~unhandled)

\* C7 witness: every edit of a session failed and the session still
\* delivered the media message and deleted both other messages
C7_Witness ==
    /\ pc = "done"
    /\ msgs = {MediaMsg}
    /\ Len(edits) = 2
    /\ \A i \in 1..Len(edits) : edits[i].st = "failed"

\* C8: whatever subset of the three artifact files is present, cleanUpFiles
\* returns without raising, and a second invocation raises nothing either
\* and leaves the files as the first one left them.
C8_CleanUpNeverRaises ==
    /\ ~unhandled
    /\ pc # "idle" =>
           \A f \in SUBSET SessionFiles :
               LET once == cleanUpFiles(session, f)
                   twice == cleanUpFiles(session, once.fs)
               IN  /\ ~once.raised
                   /\ ~twice.raised
                   /\ twice.fs = once.fs

\* C8 witness: a session invoked cleanUpFiles twice, the second time with
\* the media file already deleted
C8_Witness ==
    /\ pc = "done"
    /\ Cardinality(CallsOf("cleanUpFiles")) = 2
    /\ session.storedFilePath \notin fs

\* the download of the session resolved: send() has run
DownloadDone == Settled("execAsync", TRUE) \in Range(settled)

\* C13 (as claimed): for an audio action whose description file is absent
\* or has first two lines of another shape, send() asks for the audio
\* message with the video id as title and "Unknown Artist" as performer.
C13_AudioFallback ==
    LET descrLines == SplitLines(fileText[session.descrFilePath], << >>)
        absent == fileText[session.descrFilePath] = << >>
        misshapen == /\ ~absent
                     /\ Len(descrLines) >= 2
                     /\ ~titleMatch(descrLines[1]).matched
                     /\ ~authorMatch(descrLines[2]).matched
    IN  (session.isAudio /\ DownloadDone /\ (absent \/ misshapen)) =>
            /\ sent.kind = "audio"
            /\ sent.title = session.video_id
            /\ sent.performer = "Unknown Artist"

\* C14 (as claimed): each progress event of a download brings an edit of
\* the status message to "Downloading" with 1 to 3 dots, the n-th event the
\* text of n mod 3 + 1 dots.
C14_ProgressEdits ==
    LET shown == {i \in 1..Len(edits) :
                     edits[i].msg \in {<<updateDownloadMessage(n)>> : n \in 0..MaxProgress}}
    IN  pc # "idle" =>
            /\ Cardinality(shown) = 1 + progress
            /\ \A n \in 1..progress :
                   \E i \in shown : edits[i].msg = <<updateDownloadMessage(n)>>

\* the media send of the session failed
SendFailed == Settled("send", FALSE) \in Range(settled)

\* C25 (as claimed): the status message gets the DownloadFailed text only
\* when the download or the media send failed; once the media message is
\* delivered no DownloadFailed text is written and cleanUpFiles runs exactly
\* once, however the deletions of the two messages end.
C25_FailureTextOnlyOnFailure ==
    /\ FailureEdits # {} => (DownloadFailed \/ SendFailed)
    /\ MediaSent =>
           /\ FailureEdits = {}
           /\ Cardinality(CallsOf("cleanUpFiles")) = 1

\* the places of the call that starts the media send
SendCalls == CallsOf("replyWithVideo") \cup CallsOf("replyWithAudio")

\* C26: the steps of a session come in order. The media send starts only
\* after the download call, and only once that has succeeded; while the
\* send is pending cleanUpFiles has not been called, no file of the upload
\* is removed and no deletion of a message is asked for; every call of
\* cleanUpFiles of a session that started its send comes after the send
\* has settled; every deletion of a message comes after a call of
\* cleanUpFiles and after the delivery.
C26_StepsInOrder ==
    /\ [](\A i \in SendCalls :
              /\ DownloadDone
              /\ \E j \in CallsOf("execAsync") : j < i)
    /\ [](pc = "sending" =>
              /\ SendCalls # {}
              /\ ~CleanUpCalled
              /\ CallsOf("unlinkSync") = {}
              /\ CallsOf("deleteMessage") = {}
              /\ session.storedFilePath \in fs)
    /\ [](\A i \in CallsOf("cleanUpFiles") :
              SendCalls # {} =>
                  /\ \E j \in SendCalls : j < i
                  /\ MediaSent \/ SendFailed)
    /\ [](\A i \in CallsOf("deleteMessage") :
              /\ MediaSent
              /\ \E j \in CallsOf("cleanUpFiles") : j < i)
    /\ [][(pc = "sending" /\ pc' = "sending") =>
              (fs \cap {session.storedFilePath, session.thumbFilePath})
                  \subseteq fs']_vars

\* C26 witness: a session went through all its steps: download, send,
\* cleanup with the three files removed, and both deletions
C26_Witness ==
    /\ pc = "done"
    /\ DownloadDone
    /\ MediaSent
    /\ Cardinality(CallsOf("cleanUpFiles")) = 1
    /\ Cardinality(CallsOf("unlinkSync")) = 3
    /\ Cardinality(CallsOf("deleteMessage")) = 2
    /\ SessionFiles \cap fs = {}
    /\ msgs = {MediaMsg}

-----------------------------------------------------------------------------
(* Properties of URLMessageHandler and FormatCommandHandler *)

\* the acknowledgment reply of fetchVideoInfo failed
AckFailed == Settled("reply", FALSE) \in Range(settled)

\* C3 (as claimed): no failure escapes a handler; in particular, when the
\* acknowledgment reply of fetchVideoInfo fails, the handler ends with no
\* exception or rejection left unhandled.
C3_NoFailureEscapes ==
    (upc = "done" /\ AckFailed) => ~unhandled

\* C9 (as claimed): when the handling of a message fails after
\* processVideoInfo has written the description file, the file is deleted
\* before the handler ends.
C9_DescriptionFileCleaned ==
    (upc = "done" /\ errorLog # << >>) => fs \cap DescrFiles = {}

\* C10 (as claimed): the tier ladder of processVideoInfo holds exactly one
\* entry for each tier that has an eligible format, and the entry of a tier
\* is the smallest of the eligible formats of that tier.
C10_SmallestPerTier ==
    \A k \in 1..Len(processed) :
        LET formats == processed[k].info.formats
            ladder == processed[k].result.existingFormats
            eligible == {i \in 1..Len(formats) : isVideoFormat(formats[i])}
            tiers == {getQualityID(formats[i].height) : i \in eligible}
        IN  /\ {ladder[j].res : j \in 1..Len(ladder)} = tiers
            /\ Len(ladder) = Cardinality(tiers)
            /\ \A j \in 1..Len(ladder) : \A i \in eligible :
                   getQualityID(formats[i].height) = ladder[j].res
                       => ladder[j].fmt.size <= formats[i].filesize

-----------------------------------------------------------------------------
(* Properties of the menu and of its payloads *)

\* the menu buildInlineKeyboard makes of the k-th processed metadata
MenuOf(k) ==
    buildInlineKeyboard(processed[k].info, processed[k].result, handler.user_msg_id)

\* the fields the constructor reads from a payload
Decoded(data) == CallbackQueryHandler(data, 0)

\* C11: every payload of a menu decodes to what was encoded: the audio
\* payload to the video id, "ba", the duration, no height, no width and the
\* id of the user's message; the payload of each entry of the ladder to the
\* video id, the entry's format id with "+ba", the duration, the entry's
\* height and width and the id of the user's message.
C11_RoundTrip ==
    \A k \in 1..Len(processed) :
        LET info == processed[k].info
            ladder == processed[k].result.existingFormats
            menu == MenuOf(k)
            audio == Decoded(menu.keyboard[1].data)
        IN  ~menu.threw =>
                /\ audio.video_id = info.id
                /\ audio.format = "ba"
                /\ audio.duration = ToString(info.duration)
                /\ audio.height = "" /\ audio.width = ""
                /\ audio.isAudio
                /\ audio.original_user_msg_id = handler.user_msg_id
                /\ Len(menu.keyboard) = 1 + Len(ladder)
                /\ \A j \in 1..Len(ladder) :
                       \E b \in 2..Len(menu.keyboard) :
                           LET d == Decoded(menu.keyboard[b].data)
                               e == ladder[j].fmt
                           IN  /\ d.video_id = info.id
                               /\ d.format = e.id \o "+ba"
                               /\ d.duration = ToString(info.duration)
                               /\ d.height = ToString(e.h)
                               /\ d.width = ToString(e.w)
                               /\ ~d.isAudio
                               /\ d.original_user_msg_id = handler.user_msg_id

\* C11 witness: a menu with the audio payload and the payloads of two tiers
C11_Witness ==
    /\ Len(processed) = 1
    /\ ~MenuOf(1).threw
    /\ Len(MenuOf(1).keyboard) = 3

\* the edits that show an error report
ErrorEdits ==
    {i \in 1..Len(edits) :
        edits[i].msg[1] \in {errorMessages.atGettingInfo, errorMessages.atDownload,
                             errorMessages.badURL}}

\* C12 (as claimed): when the metadata hold no audio format with a known
\* filesize, the handler still ends with a menu shown, with no failure and
\* with no error message.
C12_MenuWithoutAudio ==
    \A k \in 1..Len(processed) :
        (upc = "done" /\ processed[k].result.largest_audio = << >>) =>
            /\ \E i \in 1..Len(edits) : edits[i].msg = <<"Select one option:">>
            /\ ErrorEdits = {}
            /\ errorLog = << >>

\* the place of a tier in the fixed enumeration
TierIndex(res) == indexOf(allowedFormats, res)

\* the tier of the b-th button of a menu: that of the entry of the ladder
\* whose format the button's payload names, "" when there is none
TierOfButton(ladder, button) ==
    LET named == {j \in 1..Len(ladder) :
                     Decoded(button.data).format = ladder[j].fmt.id \o "+ba"}
    IN  IF named = {} THEN "" ELSE ladder[CHOOSE j \in named : TRUE].res

\* C15: a menu is one audio action followed by one action for each tier of
\* the ladder and for nothing else, the tiers in the order of the fixed
\* enumeration.
C15_MenuOrder ==
    \A k \in 1..Len(processed) :
        LET ladder == processed[k].result.existingFormats
            menu == MenuOf(k)
            n == Len(menu.keyboard)
        IN  ~menu.threw =>
                /\ n = 1 + Len(ladder)
                /\ Decoded(menu.keyboard[1].data).isAudio
                /\ \A b \in 2..n : ~Decoded(menu.keyboard[b].data).isAudio
                /\ {TierOfButton(ladder, menu.keyboard[b]) : b \in 2..n}
                       = {ladder[j].res : j \in 1..Len(ladder)}
                /\ \A b, c \in 2..n :
                       b < c => TierIndex(TierOfButton(ladder, menu.keyboard[b]))
                                    < TierIndex(TierOfButton(ladder, menu.keyboard[c]))
                /\ \A b \in 2..n : TierIndex(TierOfButton(ladder, menu.keyboard[b])) >= 1

\* C15 witness: a menu whose ladder took a higher tier before a lower one
C15_Witness ==
    /\ Len(processed) = 1
    /\ ~MenuOf(1).threw
    /\ LET ladder == processed[1].result.existingFormats
       IN  \E i, j \in 1..Len(ladder) :
               i < j /\ TierIndex(ladder[i].res) > TierIndex(ladder[j].res)

\* the length of a payload in bytes (every character of a payload is one
\* byte): the sum of the lengths of its pieces
RECURSIVE ByteLength(_)
ByteLength(data) ==
    IF data = << >> THEN 0 ELSE Len(Head(data)) + ByteLength(Tail(data))

\* C22 (as claimed): every payload of a menu is at most 64 bytes long,
\* whatever metadata the builder was given.
C22_PayloadFits ==
    \A k \in 1..Len(processed) :
        \A b \in 1..Len(MenuOf(k).keyboard) :
            ByteLength(MenuOf(k).keyboard[b].data) <= 64

\* C23 (as claimed): formatSize renders a size with exactly one decimal and
\* the unit of floor(log_1024(size in KB)), 1572864 as "1.5MB" and
\* 1073741824 as "1.0GB"; in a menu the audio label shows the size of the
\* audio format and the label of each tier the size of its format plus that
\* of the audio format.
C23_OneDecimalSizes ==
    LET unitOf(bytes) == IF bytes < pow1024(2) THEN 1
                         ELSE IF bytes < pow1024(3) THEN 2
                         ELSE 3
        oneDecimal(bytes) ==
            LET tenths == tenthsOf(bytes, pow1024(unitOf(bytes)))
            IN  ToString(tenths \div 10) \o "." \o ToString(tenths % 10)
                    \o <<"KB", "MB", "GB">>[unitOf(bytes)]
    IN  \A k \in 1..Len(processed) :
            LET ladder == processed[k].result.existingFormats
                menu == MenuOf(k)
                audio == processed[k].result.largest_audio[1].filesize
            IN  ~menu.threw =>
                    /\ formatSize(1572864) = "1.5MB"
                    /\ formatSize(1073741824) = "1.0GB"
                    /\ menu.keyboard[1].text = "Music (~" \o oneDecimal(audio) \o ")"
                    /\ \A j \in 1..Len(ladder) :
                           \E b \in 2..Len(menu.keyboard) :
                               menu.keyboard[b].text =
                                   ladder[j].res \o " (<="
                                       \o oneDecimal(ladder[j].fmt.size + audio) \o ")"

-----------------------------------------------------------------------------
(* Properties of the quality tiers *)

\* the height of the video format of the k-th processed metadata and the
\* tier its entry of the ladder stands under
ProcessedHeight(k) == processed[k].info.formats[2].height
ProcessedTier(k) == processed[k].result.existingFormats[1].res

\* C16: the ladder files a format of any positive height under the tier the
\* ascending thresholds 360, 480, 720, 1080, 1440, 2160 give: below 360
\* "240p", from 2160 on "4K"; the tier is never "144p", and a height one
\* less never gets a higher tier.
C16_TierOfHeight ==
    \A k \in 1..Len(processed) :
        LET h == ProcessedHeight(k)
            ClaimedTier == IF h < 360 THEN "240p"
                           ELSE IF h < 480 THEN "360p"
                           ELSE IF h < 720 THEN "480p"
                           ELSE IF h < 1080 THEN "720p"
                           ELSE IF h < 1440 THEN "1080p"
                           ELSE IF h < 2160 THEN "1440p"
                           ELSE "4K"
        IN  /\ Len(processed[k].result.existingFormats) = 1
            /\ ProcessedTier(k) = getQualityID(h)
            /\ ProcessedTier(k) = ClaimedTier
            /\ ProcessedTier(k) # "144p"
            /\ h > 1 => TierIndex(getQualityID(h - 1)) <= TierIndex(ProcessedTier(k))

\* C16 witness: a format of a height past the last threshold that the code
\* lists (4320) was filed under "4K"
C16_Witness ==
    /\ Len(processed) = 1
    /\ ProcessedHeight(1) >= 4320
    /\ ProcessedTier(1) = "4K"

-----------------------------------------------------------------------------
(* Properties of the metadata fetch and of the handlers' validation *)

\* the three ways a metadata fetch fails, told by the text of the error
failureMode(e) ==
    IF "not a valid URL" \in Range(e) THEN "badURL"
    ELSE IF NetworkText \in Range(e) THEN "network"
    ELSE "extraction"

\* C17 (as claimed): the report of a failed metadata fetch shows a category
\* that the handler shows for no failure of another mode, in the handler of
\* link messages and in that of /format.
C17_DistinctCategories ==
    LET shown == {edits[i].msg[1] : i \in ErrorEdits}
    IN  (upc = "done" /\ Settled("execAsync", FALSE) \in Range(settled)) =>
            /\ Cardinality(shown) = 1
            /\ \A e \in ToolErrors :
                   failureMode(e) # failureMode(errorLog[1])
                       => errorMessages[fetchErrorCategory(e)] \notin shown

\* a text holds a link that youtubeRegex takes
HasYoutubeLink(text) == \E i \in 1..Len(text) : youtubeRegexAt(text, i) # 0

\* C18: for a message or a /format command whose text holds no YouTube
\* link, the handler ends at once: no call of the extraction tool is
\* issued, no "Gathering video info..." acknowledgment or status is sent,
\* no metadata are processed and no description file is written.
C18_NoFetchWithoutLink ==
    (upc # "idle" /\ ~HasYoutubeLink(handler.text)) =>
        /\ upc = "done"
        /\ ~handler.valid
        /\ CallsOf("execAsync") = {}
        /\ \A i \in 1..Len(calls) : calls[i].arg # "Gathering video info..."
        /\ CallsOf("writeFileSync") = {}
        /\ processed = << >>
        /\ fs = {}
        /\ settled = << >>

\* C18 witness: a message with a link to another site was answered, and
\* the answer has arrived
C18_Witness ==
    /\ upc = "done"
    /\ handler.kind = "url"
    /\ Len(handler.text) > 0
    /\ ~HasYoutubeLink(handler.text)
    /\ \E i \in 1..Len(edits) : edits[i].op = "reply" /\ edits[i].st = "ok"

\* C19 (as claimed): a /format command whose argument holds no YouTube
\* link, the command with no argument included, is answered with the
\* "I can only process YouTube links" reply, and the handler ends without
\* raising.
C19_FormatNoURLVisible ==
    (upc = "done" /\ handler.kind = "format" /\ ~HasYoutubeLink(handler.text)) =>
        /\ Call("reply", NoURLReply[1]) \in Range(calls)
        /\ unhandled => \E i \in 1..Len(edits) : edits[i].st = "failed"

-----------------------------------------------------------------------------
(* Properties of two sessions at once *)

\* both sessions have been constructed, for different videos
BothStarted ==
    /\ pc # "idle"
    /\ peer.pc # "idle"
    /\ session.video_id # peer.session.video_id

\* C20: two sessions for different videos have no file path in common, and
\* in every interleaving of their steps a step of one session, its cleanup
\* included, removes no file of the other.
C20_NoCollision ==
    /\ [](BothStarted => SessionFiles \cap PeerFiles = {})
    /\ [][BothStarted =>
             /\ peer' = peer => (fs \cap PeerFiles) \subseteq fs'
             /\ peer' # peer => (fs \cap SessionFiles) \subseteq fs']_vars

\* C20 witness: the first session has cleaned up after a failure while the
\* second one, its download done, still waits for its upload with its media
\* file in place
C20_Witness ==
    /\ BothStarted
    /\ pc = "done"
    /\ CleanUpCalled
    /\ SessionFiles \cap fs = {}
    /\ peer.pc = "sending"
    /\ peer.session.storedFilePath \in fs
    /\ peer.session.descrFilePath \in fs

-----------------------------------------------------------------------------
(* Properties of the acknowledgment of URLMessageHandler *)

\* the acknowledgment reply of fetchVideoInfo was sent
AckSent == Settled("reply", TRUE) \in Range(settled)

\* C21: the handler of a link message issues its metadata fetch only after
\* the "Gathering video info..." reply was issued and has succeeded, with
\* the id of that message recorded and the message in the chat; after a
\* failed acknowledgment it issues no fetch.
C21_AckBeforeFetch ==
    /\ [](handler.kind = "url" =>
            /\ \A i \in CallsOf("execAsync") :
                   /\ \E j \in 1..(i - 1) :
                          calls[j] = Call("reply", "Gathering video info...")
                   /\ AckSent
                   /\ settled[1] = Settled("reply", TRUE)
                   /\ handler.bot_msg_id # 0
                   /\ handler.bot_msg_id \in msgs
            /\ AckFailed => CallsOf("execAsync") = {})
    /\ [][(handler'.kind = "url" /\ Len(calls') > Len(calls)
            /\ calls'[Len(calls')].op = "execAsync")
          => /\ upc = "acking"
             /\ handler.bot_msg_id = 0
             /\ handler'.bot_msg_id \in msgs' \ msgs]_vars

\* C21 witness: the fetch of a link message is pending, issued after the
\* acknowledgment
C21_Witness ==
    /\ upc = "fetching"
    /\ handler.kind = "url"
    /\ AckSent
    /\ CallsOf("execAsync") # {}

-----------------------------------------------------------------------------
(* Properties of extractYoutubeURL *)

\* the ways the text of the handled message is a link among prose: the
\* prose before it, the link, and the prose after it
LinkAmongProse ==
    {d \in (ProseBefore \cup {<< >>}) \X ProseUrls \X (ProseAfter \cup {<< >>}) :
        handler.text = d[1] \o d[2] \o d[3]}

\* the prose after a link is set off from it: there is none, or it starts
\* with white space
SetOff(after) == after = << >> \/ Head(after) \in SpaceChars

\* C24 (as claimed): from a text that holds one well-formed link among
\* prose the handler takes exactly that link, with its query string and
\* with nothing of the prose.
C24_ExactURL ==
    handler.kind = "url" =>
        \A d \in LinkAmongProse :
            /\ handler.valid
            /\ handler.url = Join(d[2])

\* C24 (amended): from a text that holds one well-formed link among prose,
\* the prose after the link being set off from it by white space, the
\* handler takes exactly that link, with its query string and with nothing
\* of the prose; prose that touches the end of the link is taken with it,
\* up to the next white space.
C24_ExactURLWhenSetOff ==
    handler.kind = "url" =>
        \A d \in LinkAmongProse :
            /\ handler.valid
            /\ SetOff(d[3]) => handler.url = Join(d[2])
            /\ ~SetOff(d[3]) =>
                   handler.url = Join(d[2] \o SubSeq(d[3], 1, RunEnd(d[3], 1, SpaceChars) - 1))

\* C24 witness: a link with a query string, prose before it and prose after
\* it that white space sets off, and the link taken as it stands
C24_Witness ==
    /\ handler.kind = "url"
    /\ \E d \in LinkAmongProse :
           /\ d[1] # << >>
           /\ d[3] # << >>
           /\ SetOff(d[3])
           /\ "?" \in Range(d[2])
           /\ handler.url = Join(d[2])

=============================================================================
